---- MODULE Spec2Model ----
(***************************************************************************)
(* Model of the agentic_flow orchestrator: the persistent AgentState       *)
(* (core/state.py), the SQLite checkpoint store (core/checkpoint.py), the  *)
(* HITL manager (engine/hitl.py), the request pipeline and CLI loop of     *)
(* main.py, the persona manager and the debate loop (engine/persona.py,    *)
(* engine/adversarial.py), the worker with its tool-use, validation and   *)
(* critic loops (agents/worker.py, agents/critic.py), the router           *)
(* (agents/router.py), the semantic cache (utils/semantic_cache.py), the   *)
(* rate limiter (utils/rate_limiter.py), the event bus                     *)
(* (core/event_bus.py) and the approval channels                           *)
(* (gateway/approval_bridge.py).                                           *)
(*                                                                         *)
(* Abstractions: session UUIDs are small integers; timestamps (created_at, *)
(* suspended_at) and the free text of messages and responses are left out; *)
(* a Python dict is a function over a finite set of string keys; None is   *)
(* the string "None".                                                      *)
(***************************************************************************)
EXTENDS Integers, Sequences, FiniteSets, TLC

\* ---- bounds -------------------------------------------------------------
MaxStep == 2
MaxApiStep == 1
MaxApiId == 3
MaxId == 3
MaxSessions == 2
MaxConfigRounds == 2
MaxRounds == 3
MaxStoreId == 3
MaxStoreStep == 2
MaxMessageLen == 3
MaxCacheCalls == 3
MaxCalls == 2
MaxWindow == 2
MaxTime == 4
MaxAttempts == 4
MaxSubscribers == 2
MaxEvents == 3
MaxTimeout == 2
MaxRequests == 2
MaxResponses == 2
MaxWaits == 2

\* ---- constants of the program --------------------------------------------
NONE == "None"
SessionStatus == {"RUNNING", "PAUSED", "SUSPENDED", "COMPLETED", "FAILED"}
CheckpointType == {"TRANSACTION", "MILESTONE"}

\* ---- dicts ----------------------------------------------------------------
EmptyDict == [k \in {} |-> ""]

\* dict.update(other): keys of other override
DictUpdate(d, other) ==
  [k \in (DOMAIN d) \cup (DOMAIN other) |->
     IF k \in DOMAIN other THEN other[k] ELSE d[k]]

\* d[key] = value
DictSet(d, key, value) ==
  [k \in (DOMAIN d) \cup {key} |-> IF k = key THEN value ELSE d[k]]

\* variant: the key is left in the dict
DictPopKeeps(d, key) == d

\* d.pop(key, None)
DictPop(d, key) == [k \in (DOMAIN d) \ {key} |-> d[k]]

\* ---- AgentState (core/state.py) ---------------------------------------------
AgentState(sid) ==
  [session_id |-> sid, step |-> 0, status |-> "RUNNING",
   entities |-> EmptyDict, artifacts |-> EmptyDict,
   current_agent |-> NONE, retry_count |-> 0, turn_number |-> 0,
   hitl_context |-> EmptyDict]

set_entity(s, key, value) ==
  [s EXCEPT !.entities = DictSet(s.entities, key, value)]

\* variant: the sticky agent is left in place
reset_routing_keep(s) == s

reset_routing(s) == [s EXCEPT !.current_agent = NONE]

increment_turn(s) ==
  [s EXCEPT !.turn_number = s.turn_number + 1, !.retry_count = 0]

increment_step(s) == [s EXCEPT !.step = s.step + 1]

\* {"reason": reason, "suspended_at": ..., **(context or {})}
state_suspend(s, reason, context) ==
  [s EXCEPT !.status = "SUSPENDED",
            !.hitl_context = DictUpdate([k \in {"reason"} |-> reason], context)]

\* modified_data is an ordered dict: a sequence of items [key, dict, value];
\* `dict` is the value of an "entities" / "artifacts" item, `value` the value
\* of any other item.
RECURSIVE PatchItems(_, _)
PatchItems(s, items) ==
  IF items = <<>> THEN s
  ELSE LET it == Head(items)
           s1 == IF it.key = "entities"
                   THEN [s EXCEPT !.entities = DictUpdate(s.entities, it.dict)]
                 ELSE IF it.key = "artifacts"
                   THEN [s EXCEPT !.artifacts = DictUpdate(s.artifacts, it.dict)]
                 ELSE [s EXCEPT !.artifacts = DictSet(s.artifacts, it.key, it.value)]
       IN PatchItems(s1, Tail(items))

\* None and {} are both falsy: both are the empty sequence here
state_resume(s, modified_data) ==
  LET s1 == [s EXCEPT !.status = "RUNNING"]
      s2 == IF modified_data # <<>> THEN PatchItems(s1, modified_data) ELSE s1
  IN [s2 EXCEPT !.hitl_context = EmptyDict]

\* ---- serialisation (pydantic model_dump_json / model_validate_json) ---------
\* The JSON text is the sequence of the field values in declaration order;
\* None is written as null.
model_dump_json(s) ==
  << s.session_id, s.step, s.status, s.entities, s.artifacts,
     IF s.current_agent = NONE THEN "null" ELSE s.current_agent,
     s.retry_count, s.turn_number, s.hitl_context >>

model_validate_json(j) ==
  [session_id |-> j[1], step |-> j[2], status |-> j[3],
   entities |-> j[4], artifacts |-> j[5],
   current_agent |-> IF j[6] = "null" THEN NONE ELSE j[6],
   retry_count |-> j[7], turn_number |-> j[8], hitl_context |-> j[9]]

\* ---- CheckpointManager (core/checkpoint.py) -----------------------------------
\* The table is a set of rows; id is the AUTOINCREMENT key.
SessionRows(d, sid) == {r \in d : r.session_id = sid}

\* variant: the table has no UNIQUE constraint
SameKeyNever(r, s, checkpoint_type) == FALSE

\* UNIQUE(session_id, step_number, checkpoint_type)
SameKey(r, s, checkpoint_type) ==
  /\ r.session_id = s.session_id
  /\ r.step_number = s.step
  /\ r.checkpoint_type = checkpoint_type

\* variant: INSERT OR IGNORE, a conflicting row is kept and the new one dropped
save_checkpoint_ignore(d, nid, s, checkpoint_type, label) ==
  IF \E r \in d : /\ r.session_id = s.session_id /\ r.step_number = s.step
                   /\ r.checkpoint_type = checkpoint_type
    THEN d
    ELSE d \cup {[id |-> nid, session_id |-> s.session_id, step_number |-> s.step,
                  checkpoint_type |-> checkpoint_type,
                  state_json |-> model_dump_json(s),
                  label |-> label]}

\* INSERT OR REPLACE under UNIQUE(session_id, step_number, checkpoint_type):
\* the conflicting row is deleted and the new row gets a fresh id.
save_checkpoint(d, nid, s, checkpoint_type, label) ==
  {r \in d : ~SameKey(r, s, checkpoint_type)}
  \cup {[id |-> nid, session_id |-> s.session_id, step_number |-> s.step,
         checkpoint_type |-> checkpoint_type,
         state_json |-> model_dump_json(s), label |-> label]}

\* ORDER BY id DESC LIMIT 1
MaxIdRow(rows) == CHOOSE r \in rows : \A o \in rows : o.id <= r.id

\* ORDER BY step_number DESC, id DESC LIMIT 1
LatestRow(rows) ==
  CHOOSE r \in rows : \A o \in rows :
    \/ o.step_number < r.step_number
    \/ (o.step_number = r.step_number /\ o.id <= r.id)

\* An absent result (Python None) is [found |-> FALSE]
NotFound == [found |-> FALSE, state |-> AgentState(0)]

\* step = NoStep (Python None) selects the latest checkpoint of the session
NoStep == -1

load_checkpoint(d, sid, step) ==
  LET rows == IF step = NoStep THEN SessionRows(d, sid)
              ELSE {r \in SessionRows(d, sid) : r.step_number = step}
      row == IF step = NoStep THEN LatestRow(rows) ELSE MaxIdRow(rows)
  IN IF rows = {} THEN NotFound
     ELSE [found |-> TRUE, state |-> model_validate_json(row.state_json)]

\* ORDER BY step_number ASC, id ASC
RECURSIVE SortRows(_)
SortRows(rows) ==
  IF rows = {} THEN <<>>
  ELSE LET first == CHOOSE r \in rows : \A o \in rows :
                      \/ r.step_number < o.step_number
                      \/ (r.step_number = o.step_number /\ r.id <= o.id)
       IN <<first>> \o SortRows(rows \ {first})

list_checkpoints(d, sid) ==
  LET rows == SortRows(SessionRows(d, sid))
  IN [i \in 1..Len(rows) |->
        [id |-> rows[i].id, step |-> rows[i].step_number,
         type |-> rows[i].checkpoint_type, label |-> rows[i].label]]

\* variant: DELETE ... WHERE step_number >= ?
rollback_from_target(d, sid, step) ==
  LET res == load_checkpoint(d, sid, step)
  IN IF ~res.found THEN [result |-> NotFound, db |-> d]
     ELSE [result |-> res,
           db |-> {r \in d : ~(r.session_id = sid /\ r.step_number >= step)}]

\* returns the loaded state and the table after the DELETE
rollback(d, sid, step) ==
  LET res == load_checkpoint(d, sid, step)
  IN IF ~res.found THEN [result |-> NotFound, db |-> d]
     ELSE [result |-> res,
           db |-> {r \in d : ~(r.session_id = sid /\ r.step_number > step)}]

\* DELETE FROM checkpoints WHERE session_id = ? AND step_number > ?
delete_after(d, sid, step) == {r \in d : ~(r.session_id = sid /\ r.step_number > step)}

\* variant: the rows are gone although execute or commit raised
CommittedAnyway(d, after, failed) == after

\* conn.execute(...); conn.commit() ... finally: conn.close(): when execute or
\* commit raises, the connection is closed without a commit and the table is
\* as it was
Committed(d, after, failed) == IF failed THEN d ELSE after

\* a call of rollback in progress: where it stands (idle, loaded: between the
\* two connections, done), its arguments, the state loaded, what it returned
\* and whether it raised
RollbackCall(at, sid, step, loaded, result, raised) ==
  [pc |-> at, session_id |-> sid, step |-> step, loaded |-> loaded,
   result |-> result, raised |-> raised]

NoRollback == RollbackCall("idle", 0, 0, NotFound, NotFound, FALSE)

\* ---- HITLManager (engine/hitl.py) ------------------------------------------------
\* A label is a sequence of strings: f"HITL: {reason}" is <<"HITL", reason>>.
\* variant: the checkpoint is written before state.suspend() runs
hitl_suspend_save_first(s, d, nid, pend, reason, context) ==
  LET s1 == state_suspend(s, reason, context)
  IN [state |-> s1,
      db |-> save_checkpoint(d, nid, s, "TRANSACTION", <<"HITL", reason>>),
      next_id |-> nid + 1,
      pending |-> DictSet(pend, s1.session_id,
                          [reason |-> reason, context |-> context, step |-> s1.step])]

hitl_suspend(s, d, nid, pend, reason, context) ==
  LET s1 == state_suspend(s, reason, context)
  IN [state |-> s1,
      db |-> save_checkpoint(d, nid, s1, "TRANSACTION", <<"HITL", reason>>),
      next_id |-> nid + 1,
      pending |-> DictSet(pend, s1.session_id,
                          [reason |-> reason, context |-> context, step |-> s1.step])]

\* variant: modified_data is merged whatever the action (`if modified_data:`)
hitl_resume_merge_always(d, nid, pend, sid, action, modified_data) ==
  LET res == load_checkpoint(d, sid, NoStep)
  IN IF ~res.found
       THEN [result |-> NotFound, db |-> d, next_id |-> nid, pending |-> pend]
     ELSE IF action = "reject"
       THEN [result |-> NotFound,
             db |-> save_checkpoint(d, nid, [res.state EXCEPT !.status = "FAILED"],
                                    "MILESTONE", <<"HITL", "Rejected by human">>),
             next_id |-> nid + 1,
             pending |-> DictPop(pend, sid)]
     ELSE [result |-> [found |-> TRUE,
                       state |-> state_resume(res.state, modified_data)],
           db |-> d, next_id |-> nid,
           pending |-> DictPop(pend, sid)]

hitl_resume(d, nid, pend, sid, action, modified_data) ==
  LET res == load_checkpoint(d, sid, NoStep)
  IN IF ~res.found
       THEN [result |-> NotFound, db |-> d, next_id |-> nid, pending |-> pend]
     ELSE IF action = "reject"
       THEN [result |-> NotFound,
             db |-> save_checkpoint(d, nid, [res.state EXCEPT !.status = "FAILED"],
                                    "MILESTONE", <<"HITL", "Rejected by human">>),
             next_id |-> nid + 1,
             pending |-> DictPop(pend, sid)]
     ELSE [result |-> [found |-> TRUE,
                       state |-> IF action = "modify" /\ modified_data # <<>>
                                   THEN state_resume(res.state, modified_data)
                                   ELSE state_resume(res.state, <<>>)],
           db |-> d, next_id |-> nid,
           pending |-> DictPop(pend, sid)]

get_pending(pend, sid) == sid \in DOMAIN pend

\* ---- PersonaManager (engine/persona.py, core/config_loader.py) ---------------------------
PersonaIds == {"worker", "devil", "moderator"}

\* system.default_persona
DEFAULT_PERSONA == "worker"

\* files: the persona YAML files present; persona_cache: ConfigLoader._persona_cache
PersonaManager(files) ==
  [current_id |-> DEFAULT_PERSONA,
   persona_cache |-> {DEFAULT_PERSONA} \cap files,
   files |-> files]

\* load_persona succeeds from the cache or from the file
CanLoad(p, persona_id) == persona_id \in p.persona_cache \cup p.files

\* switch_persona: load_persona raises before anything is assigned
switch_persona(p, persona_id) ==
  IF CanLoad(p, persona_id)
    THEN [persona |-> [p EXCEPT !.current_id = persona_id,
                                !.persona_cache = @ \cup {persona_id}],
          raised |-> NONE]
    ELSE [persona |-> p, raised |-> "FileNotFoundError"]

\* ---- DebateLoop (engine/adversarial.py) ---------------------------------------------------
\* defaults of DebateLoop.run
DEFAULT_MAX_ROUNDS == 3
DEFAULT_APPROVAL_THRESHOLD == 7

\* a validity_score that is missing or that float() refuses
NoScore == -1

\* What the provider call of the moderator phase meets: an answer that is a
\* JSON object, text that is not JSON, JSON that is not an object (a number,
\* a string, a list), or an exception of the client ("error").
Judgment(json, validity_score, verdict) ==
  [json |-> json, validity_score |-> validity_score, verdict |-> verdict]

ModeratorOutputs ==
  { Judgment("object", 8, "REVISE"),
    Judgment("object", 7, "revise"),
    Judgment("object", 6, "REVISE"),
    Judgment("object", 8, "APPROVE"),
    Judgment("object", 0, "APPROVE"),
    Judgment("object", 6, "ESCALATE"),
    Judgment("object", NoScore, NONE),
    Judgment("text", NoScore, NONE),
    Judgment("scalar", NoScore, NONE),
    Judgment("error", NoScore, NONE) }

\* _judge: the answer of the moderator, or the object that the except branch
\* builds when the provider call raises
Judge(output) ==
  IF output.json = "error" THEN Judgment("object", 0, "APPROVE") ELSE output

\* _parse_json_safe: text that json.loads refuses becomes {"raw_text": text};
\* whatever json.loads accepts is returned as it is, dict or not
parse_json_safe(text) ==
  IF text.json = "text"
    THEN [is_dict |-> TRUE, validity_score |-> NoScore, verdict |-> NONE]
    ELSE [is_dict |-> (text.json = "object"),
          validity_score |-> text.validity_score, verdict |-> text.verdict]

\* judgment_parsed.get("validity_score", 10.0), float() falling back to 10.0
ValidityScore(parsed) ==
  IF parsed.validity_score = NoScore THEN 10 ELSE parsed.validity_score

\* str.upper on the verdicts in use
Upper(verdict) ==
  CASE verdict = "revise" -> "REVISE"
    [] verdict = "approve" -> "APPROVE"
    [] verdict = "escalate" -> "ESCALATE"
    [] OTHER -> verdict

\* judgment_parsed.get("verdict", "REVISE").upper()
Verdict(parsed) == Upper(IF parsed.verdict = NONE THEN "REVISE" ELSE parsed.verdict)

\* variant: ESCALATE is not told apart from the other verdicts
IsEscalateNever(verdict) == FALSE

IsEscalate(verdict) == verdict = "ESCALATE"

\* variant: only the verdict approves, a low score does not
IsApprovedByVerdict(validity_score, approval_threshold, verdict) ==
  verdict = "APPROVE"

IsApproved(validity_score, approval_threshold, verdict) ==
  validity_score < approval_threshold \/ verdict = "APPROVE"

\* variant: the revise phase also runs in the last round
ShouldReviseEveryRound(round_num, max_rounds) == round_num <= max_rounds

ShouldRevise(round_num, max_rounds) == round_num < max_rounds

\* the original proposal; the revision written in round k is proposal k
Proposal == 0

\* what run hands back: a DebateResult, or the exception that left the loop
DebateOutcome(p, raised, final_proposal, approved, total_rounds, escalated, rounds) ==
  [persona |-> p, raised |-> raised,
   final_proposal |-> final_proposal, approved |-> approved,
   total_rounds |-> total_rounds, escalated |-> escalated, rounds |-> rounds]

DebateRaised(p, raised, current_proposal, rounds) ==
  DebateOutcome(p, raised, current_proposal, FALSE, Len(rounds), FALSE, rounds)

\* the body of the try block, from round round_num on
RECURSIVE DebateRounds(_, _, _, _, _)
DebateRounds(p, inp, round_num, current_proposal, rounds) ==
  IF round_num > inp.max_rounds
    THEN DebateOutcome(p, NONE, current_proposal, TRUE, inp.max_rounds, FALSE, rounds)
  ELSE
    LET attack == switch_persona(p, "devil")
        judge == switch_persona(attack.persona, "moderator")
        parsed == parse_json_safe(Judge(inp.judgments[round_num]))
        validity_score == ValidityScore(parsed)
        verdict == Verdict(parsed)
        debate_round == [round_number |-> round_num, validity_score |-> validity_score,
                         verdict |-> verdict, revised |-> FALSE]
        rs == Append(rounds, debate_round)
        revise == switch_persona(judge.persona, "worker")
        revision == IF inp.revise_fails THEN current_proposal ELSE round_num
    IN IF attack.raised # NONE
         THEN DebateRaised(attack.persona, attack.raised, current_proposal, rounds)
       ELSE IF judge.raised # NONE
         THEN DebateRaised(judge.persona, judge.raised, current_proposal, rounds)
       ELSE IF ~parsed.is_dict
         THEN DebateRaised(judge.persona, "AttributeError", current_proposal, rounds)
       ELSE IF IsEscalate(verdict)
         THEN DebateOutcome(judge.persona, NONE, current_proposal, FALSE, round_num, TRUE, rs)
       ELSE IF IsApproved(validity_score, inp.approval_threshold, verdict)
         THEN DebateOutcome(judge.persona, NONE, current_proposal, TRUE, round_num, FALSE, rs)
       ELSE IF ShouldRevise(round_num, inp.max_rounds)
         THEN IF revise.raised # NONE
                THEN DebateRaised(revise.persona, revise.raised, current_proposal, rs)
                ELSE DebateRounds(revise.persona, inp, round_num + 1, revision,
                                  Append(rounds, [debate_round EXCEPT !.revised = TRUE]))
       ELSE DebateRounds(judge.persona, inp, round_num + 1, current_proposal, rs)

\* the finally block: back to the persona of entry, FileNotFoundError ignored
RestorePersona(p, original_persona_id) ==
  IF p.current_id # original_persona_id
    THEN switch_persona(p, original_persona_id).persona
    ELSE p

\* DebateLoop.run
DebateRun(p, inp) ==
  LET body == DebateRounds(p, inp, 1, Proposal, <<>>)
  IN [body EXCEPT !.persona = RestorePersona(body.persona, p.current_id)]

DebateInput(max_rounds, approval_threshold, judgments, revise_fails) ==
  [max_rounds |-> max_rounds, approval_threshold |-> approval_threshold,
   judgments |-> judgments, revise_fails |-> revise_fails]

\* ---- SemanticCache (utils/semantic_cache.py) ------------------------------------------------
\* A query stands for its embedding; a stored query is a hit for itself.
Queries == {"business hours", "fix the code"}
NON_CACHEABLE == {"fix the code", "/clear"}

is_cacheable(query) == query \notin NON_CACHEABLE

cache_get(c, query) == is_cacheable(query) /\ query \in c

cache_put(c, query) == IF is_cacheable(query) THEN c \cup {query} ELSE c

\* the cache object: whether construction succeeded (_enabled), the queries
\* of the collection, and the number of reads and writes the collection has
\* served (collection.query, collection.add)
SemanticCache(enabled) ==
  [enabled |-> enabled, collection |-> {}, store_queries |-> 0, store_adds |-> 0]

\* variant: only a disabled cache keeps a query from the collection
GateEnabledOnly(c, query) == c.enabled

\* the two early returns of get and of put
Gate(c, query) == c.enabled /\ is_cacheable(query)

\* SemanticCache.get: the cache after the call and whether it found a
\* response; a read of the collection that raises is a miss
semantic_cache_get(c, query, fails) ==
  IF ~Gate(c, query) THEN [cache |-> c, hit |-> FALSE]
  ELSE [cache |-> [c EXCEPT !.store_queries = @ + 1],
        hit |-> ~fails /\ query \in c.collection]

\* SemanticCache.put: a write of the collection that raises stores nothing
semantic_cache_put(c, query, fails) ==
  IF ~Gate(c, query) THEN c
  ELSE [c EXCEPT !.store_adds = @ + 1,
                 !.collection = IF fails THEN @ ELSE @ \cup {query}]

\* the cache driven directly: the object, the number of calls made and the
\* last call with its result
CacheCall(c, calls, op, query, hit) ==
  [cache |-> c, calls |-> calls, op |-> op, query |-> query, hit |-> hit]

NoCacheCall == CacheCall(SemanticCache(TRUE), 0, NONE, "", FALSE)

\* ---- Worker (agents/worker.py) and critique (agents/critic.py) --------------------------------
MAX_VALIDATION_RETRIES == 2
MAX_CRITIC_ROUNDS == 2
MAX_TOOL_STEPS == 5

\* max_retries of critique
CRITIC_MAX_RETRIES == 2

\* One step of the tool-use loop, named by what the provider call meets: an
\* answer without tool calls ("text", or "escalate" when it holds [ESCALATE]),
\* tool calls that all return, a provider error, a tool that raises, or a
\* tool that raises WaitApproval.
StepEvents ==
  {"text", "escalate", "tool_call", "provider_error", "tool_error", "tool_wait_approval"}

\* the exception raised inside the try block of the tool-use loop
RaisedInLoop(ev) ==
  CASE ev = "provider_error" -> "APIError"
    [] ev = "tool_error" -> "RuntimeError"
    [] ev = "tool_wait_approval" -> "WaitApproval"
    [] OTHER -> NONE

\* the classes `except Exception` catches
ExceptionSubclasses == {"APIError", "RuntimeError", "WaitApproval"}

Generated(value, raised, calls) == [value |-> value, raised |-> raised, calls |-> calls]

\* for step in range(MAX_TOOL_STEPS): one provider call per step
RECURSIVE ToolLoop(_, _)
ToolLoop(script, step) ==
  IF step >= MAX_TOOL_STEPS
    THEN Generated(NONE, NONE, step)
  ELSE
    LET ev == script[step + 1]
        exc == RaisedInLoop(ev)
    IN IF exc # NONE
         THEN IF exc \in ExceptionSubclasses
                THEN Generated(NONE, NONE, step + 1)
                ELSE Generated(NONE, exc, step + 1)
       ELSE IF ev = "text" THEN Generated("text", NONE, step + 1)
       ELSE IF ev = "escalate" THEN Generated("[ESCALATE]", NONE, step + 1)
       ELSE ToolLoop(script, step + 1)

\* What a generation meets, and the steps that stand for it: a plain text
\* answer, an answer holding [ESCALATE], a provider error, a tool that raises
\* WaitApproval, or tool calls up to the step limit.
GenEvents == {"text", "escalate", "provider_error", "tool_wait_approval", "tool_limit"}

GenScript(ev) ==
  [i \in 1..MAX_TOOL_STEPS |->
     CASE ev = "tool_limit" -> "tool_call"
       [] ev = "tool_wait_approval" /\ i = 1 -> "tool_call"
       [] OTHER -> ev]

\* _generate_response: the value returned and the exception that escapes
generate_response(ev) == ToolLoop(GenScript(ev), 0)

\* One attempt of critique: a PASS verdict, a REJECT verdict, an answer with
\* no clear verdict, or a provider call / answer handling that raises.
CriticEvents == {"pass", "reject", "unclear", "raises"}

\* variant: an unreachable critic rejects
CRITIC_UNAVAILABLE_REJECTED == FALSE

\* the verdict when every attempt raised
CRITIC_UNAVAILABLE_PASSED == TRUE

\* critique: the first attempt that does not raise decides
RECURSIVE critique(_, _)
critique(attempts, attempt) ==
  IF attempt > CRITIC_MAX_RETRIES
    THEN [passed |-> TRUE, unavailable |-> TRUE]
  ELSE IF attempts[attempt] = "raises"
    THEN IF attempt = CRITIC_MAX_RETRIES
           THEN [passed |-> CRITIC_UNAVAILABLE_PASSED, unavailable |-> TRUE]
           ELSE critique(attempts, attempt + 1)
  ELSE [passed |-> (attempts[attempt] = "pass"), unavailable |-> FALSE]

\* variant: a regeneration follows every rejection, the last round included
ShouldRegenerateEveryRound(round_num, max_rounds) == TRUE

ShouldRegenerate(round_num, max_rounds) == round_num < max_rounds

\* the response validated first; the regeneration of critic round k is response k
Response == 0

CriticResult(response, passed, critic_calls, regenerations) ==
  [response |-> response, passed |-> passed,
   critic_calls |-> critic_calls, regenerations |-> regenerations]

\* _critic_loop from round round_num on
RECURSIVE critic_loop(_, _, _, _)
critic_loop(run, round_num, current_response, regenerations) ==
  IF round_num > MAX_CRITIC_ROUNDS
    THEN CriticResult(current_response, FALSE, round_num - 1, regenerations)
  ELSE
    LET critic_result == critique(run.critics[round_num], 1)
        new_response == generate_response(run.regens[round_num])
    IN IF critic_result.passed
         THEN CriticResult(current_response, TRUE, round_num, regenerations)
       ELSE IF ShouldRegenerate(round_num, MAX_CRITIC_ROUNDS)
         THEN IF new_response.value = NONE \/ new_response.value = "[ESCALATE]"
                THEN CriticResult(current_response, FALSE, round_num, regenerations + 1)
                ELSE critic_loop(run, round_num + 1, round_num, regenerations + 1)
       ELSE critic_loop(run, round_num + 1, current_response, regenerations)

NoCritic == CriticResult(Response, FALSE, 0, 0)

\* One retry after a failed validation: the regeneration comes back and
\* validates, comes back and fails validation again, or does not come back
\* (_generate_response returns None).
RetryEvents == {"valid", "invalid", "none"}

\* variant: a regeneration that yields nothing is followed by the next attempt
RetryGivesUpNever(new_response) == FALSE

\* if new_response is None: ... break
RetryGivesUp(new_response) == new_response = "none"

RetryResult(passed, attempts, failed) ==
  [passed |-> passed, attempts |-> attempts, failed |-> failed]

NoRetry == RetryResult(TRUE, 0, FALSE)

\* _retry_with_feedback from attempt `attempt` on: whether a regeneration
\* validated, the number of regenerations made, and whether the last response
\* is the "[ERROR] Worker retry failed" text
RECURSIVE retry_with_feedback(_, _)
retry_with_feedback(retries, attempt) ==
  IF attempt > MAX_VALIDATION_RETRIES
    THEN RetryResult(FALSE, attempt - 1, FALSE)
  ELSE IF RetryGivesUp(retries[attempt]) THEN RetryResult(FALSE, attempt, TRUE)
  ELSE IF retries[attempt] = "valid" THEN RetryResult(TRUE, attempt, FALSE)
  ELSE retry_with_feedback(retries, attempt + 1)

\* a run of the worker: the first generation, whether its validation passes,
\* what each retry after a failed validation meets, whether the answer holds
\* code, the attempts of each critic round and the regeneration that follows
\* each rejection
WorkerRun(gen, valid, retries, has_code, critics, regens) ==
  [gen |-> gen, valid |-> valid, retries |-> retries, has_code |-> has_code,
   critics |-> critics, regens |-> regens]

WorkerResult(escalated, validation_passed, critic_passed, raised, critic, retry) ==
  [escalated |-> escalated, validation_passed |-> validation_passed,
   critic_passed |-> critic_passed, raised |-> raised, critic |-> critic,
   retry |-> retry]

worker_execute(run) ==
  LET g == generate_response(run.gen)
      v == IF run.valid THEN NoRetry ELSE retry_with_feedback(run.retries, 1)
      c == critic_loop(run, 1, Response, 0)
  IN IF g.raised # NONE THEN WorkerResult(FALSE, FALSE, NONE, g.raised, NoCritic, NoRetry)
     ELSE IF g.value = NONE \/ g.value = "[ESCALATE]"
       THEN WorkerResult(TRUE, FALSE, NONE, NONE, NoCritic, NoRetry)
     ELSE IF ~v.passed THEN WorkerResult(TRUE, FALSE, NONE, NONE, NoCritic, v)
     ELSE IF run.has_code /\ ~c.passed THEN WorkerResult(TRUE, TRUE, "False", NONE, c, v)
     ELSE WorkerResult(FALSE, TRUE, IF run.has_code THEN "True" ELSE NONE, NONE,
                       IF run.has_code THEN c ELSE NoCritic, v)

\* the retries of a run whose validation passes at once (none is made)
NoRetries == [k \in 1..MAX_VALIDATION_RETRIES |-> "invalid"]

\* the runs met by requests: the validation passes at once or fails with
\* every retry, the critic passes at once or rejects every round
WorkerRuns ==
  { WorkerRun(gen, valid, NoRetries, has_code,
              [r \in 1..MAX_CRITIC_ROUNDS |-> [a \in 1..CRITIC_MAX_RETRIES |-> verdict]],
              [r \in 1..MAX_CRITIC_ROUNDS |-> "text"]) :
      gen \in GenEvents, valid \in BOOLEAN, has_code \in BOOLEAN,
      verdict \in {"pass", "reject"} }

\* ---- Router (agents/router.py) ---------------------------------------------------------------
\* A message is a sequence of words. A pattern of the regex tables is a set of
\* words one of which must occur (at the start of the message when the regex
\* begins with ^), followed, for the patterns of the form (a).*(b), by one of
\* a second set of words later in the message.
Words == {"hello", "code", "debug", "architecture", "design", "weather"}

Pattern(anchored, first, then) == [anchored |-> anchored, first |-> first, then |-> then]

\* ^(hi|hello|...), (debug|fix|bug|...), (code|function|class|module|...)
FAST_LOCAL_PATTERNS ==
  << Pattern(TRUE, {"hello"}, {}),
     Pattern(FALSE, {"debug"}, {}),
     Pattern(FALSE, {"code"}, {}) >>

\* (architecture).*(design), (design).*(architecture)
FAST_CLOUD_PATTERNS ==
  << Pattern(FALSE, {"architecture"}, {"design"}),
     Pattern(FALSE, {"design"}, {"architecture"}) >>

\* re.search(pattern, user_message, re.IGNORECASE)
re_search(pattern, user_message) ==
  \E i \in 1..Len(user_message) :
    /\ pattern.anchored => i = 1
    /\ user_message[i] \in pattern.first
    /\ pattern.then # {} =>
         \E j \in (i + 1)..Len(user_message) : user_message[j] \in pattern.then

AnyMatch(patterns, user_message) ==
  \E k \in 1..Len(patterns) : re_search(patterns[k], user_message)

Table(destination, patterns) == [destination |-> destination, patterns |-> patterns]

\* variant: the CLOUD table is consulted first
FastTablesCloudFirst ==
  << Table("CLOUD", FAST_CLOUD_PATTERNS), Table("LOCAL", FAST_LOCAL_PATTERNS) >>

\* the two loops of _fast_route, in their order
FastTables ==
  << Table("LOCAL", FAST_LOCAL_PATTERNS), Table("CLOUD", FAST_CLOUD_PATTERNS) >>

\* _fast_route from table k on: the destination of the first table with a
\* matching pattern, None when no pattern matches
RECURSIVE fast_route_from(_, _)
fast_route_from(user_message, k) ==
  IF k > Len(FastTables) THEN NONE
  ELSE IF AnyMatch(FastTables[k].patterns, user_message) THEN FastTables[k].destination
  ELSE fast_route_from(user_message, k + 1)

fast_route(user_message) == fast_route_from(user_message, 1)

\* What the classifier call meets: a JSON object whose route is LOCAL, CLOUD
\* or something else, a JSON value that is no object, a text with
\* "ROUTE: CLOUD", a text without a route, or an exception of the client.
LlmAnswers ==
  {"json_local", "json_cloud", "json_other", "json_scalar", "text_cloud", "text", "error"}

\* _parse_routing_response: the destination, or the exception that leaves it
parse_routing_response(raw_response) ==
  CASE raw_response = "json_cloud" -> [destination |-> "CLOUD", raised |-> NONE]
    [] raw_response = "text_cloud" -> [destination |-> "CLOUD", raised |-> NONE]
    [] raw_response = "json_scalar" -> [destination |-> NONE, raised |-> "AttributeError"]
    [] OTHER -> [destination |-> "LOCAL", raised |-> NONE]

Routing(destination, stage, llm_calls) ==
  [destination |-> destination, stage |-> stage, llm_calls |-> llm_calls]

\* Router.route: stage 1, then the classifier; any exception of stage 2 falls
\* back to LOCAL
route(user_message, llm) ==
  LET fast == fast_route(user_message)
      parsed == parse_routing_response(llm)
  IN IF fast # NONE THEN Routing(fast, "rule", 0)
     ELSE IF llm = "error" \/ parsed.raised # NONE THEN Routing("LOCAL", "fallback", 1)
     ELSE Routing(parsed.destination, "llm", 1)

\* a direct call of the router: its arguments and what it returned
NoRouterCall ==
  [called |-> FALSE, message |-> <<>>, llm |-> "error",
   result |-> Routing(NONE, NONE, 0)]

\* ---- RateLimiter (utils/rate_limiter.py) ---------------------------------------------------------
\* The clock is a counter of ticks that never runs backwards. The limiter
\* holds its two parameters and the deque _calls; `granted` keeps every
\* timestamp recorded since construction or the last reset, `attempts` counts
\* the calls of allow, and `last` is what the last one answered.
RateLimiter(max_calls, window_sec) ==
  [max_calls |-> max_calls, window |-> window_sec, calls |-> <<>>, now |-> 0,
   granted |-> <<>>, attempts |-> 0, last |-> NONE]

\* variant: a record as old as the window is dropped as well
ExpiredAtEdge(ts, now, window) == ts <= now - window

\* self._calls[0] < now - self.window
Expired(ts, now, window) == ts < now - window

\* while self._calls and self._calls[0] < now - self.window: popleft()
RECURSIVE purge(_, _, _)
purge(calls, now, window) ==
  IF calls # <<>> /\ Expired(Head(calls), now, window)
    THEN purge(Tail(calls), now, window)
    ELSE calls

\* allow / allow_sync at the time l.now
allow(l) ==
  LET calls == purge(l.calls, l.now, l.window)
  IN IF Len(calls) >= l.max_calls
       THEN [l EXCEPT !.calls = calls, !.attempts = @ + 1, !.last = "denied"]
       ELSE [l EXCEPT !.calls = Append(calls, l.now),
                      !.granted = Append(@, l.now),
                      !.attempts = @ + 1, !.last = "granted"]

\* remaining / remaining_sync: only the purge changes the limiter
remaining(l) == [l EXCEPT !.calls = purge(l.calls, l.now, l.window)]

\* reset: the records are cleared
reset(l) == [l EXCEPT !.calls = <<>>, !.granted = <<>>, !.last = NONE]

NoLimiter == RateLimiter(1, 1)

\* ---- EventBus (core/event_bus.py) ----------------------------------------------------------------
\* An event carries its type and the rank of its publication (event_id,
\* timestamp). A subscription carries its type and what its handler does when
\* awaited: it returns, it raises, or it never returns.
EventTypes == {"thinking", "decision"}
HandlerKinds == {"returns", "raises", "hangs"}

Event(id, type) == [id |-> id, type |-> type]
NoEvent == Event(0, NONE)

\* _type_index[event_type]: the subscribers of a type in the order of subscription
sub_ids(subs, event_type) ==
  SelectSeq([i \in DOMAIN subs |-> i], LAMBDA i : subs[i].event_type = event_type)

\* variant: the newest event of the queue is taken first
queue_get_newest(q) == [event |-> q[Len(q)], rest |-> SubSeq(q, 1, Len(q) - 1)]

\* self._queue.get() of the asyncio.Queue
queue_get(q) == [event |-> Head(q), rest |-> Tail(q)]

\* the bus: the subscriptions, the queue, the log of the events taken, the
\* number of events published, the event the consumer loop is dispatching,
\* its position in the list of subscribers, the subscriber whose handler it
\* awaits (0: none), the events each handler has been called with, and the
\* subscriptions still held (the keys of _subscriptions)
EventBus(subs) ==
  [subs |-> subs, queue |-> <<>>, event_log |-> <<>>, published |-> 0,
   current |-> NoEvent, index |-> 0, awaiting |-> 0,
   received |-> [i \in DOMAIN subs |-> <<>>],
   subscribed |-> DOMAIN subs]

\* self._type_index.get(event_type, []): the list of the subscribers of a
\* type as it stands, the ones removed by unsubscribe left out
type_index(b, event_type) ==
  SelectSeq(sub_ids(b.subs, event_type), LAMBDA i : i \in b.subscribed)

\* unsubscribe(subscription_id): the subscription is popped and its id is
\* removed from the list of its type, the very list the consumer loop walks
unsubscribe(b, sub) ==
  IF sub \notin b.subscribed THEN b
  ELSE [b EXCEPT !.subscribed = @ \ {sub}]

NoBus == EventBus(<<>>)

\* await self._queue.put(event)
publish(b, event_type) ==
  [b EXCEPT !.queue = Append(@, Event(b.published + 1, event_type)),
            !.published = @ + 1]

\* the consumer loop takes an event, logs it and turns to its subscribers
take(b) ==
  LET got == queue_get(b.queue)
  IN [b EXCEPT !.queue = got.rest,
               !.event_log = Append(@, got.event),
               !.current = IF type_index(b, got.event.type) = <<>>
                             THEN NoEvent ELSE got.event,
               !.index = IF type_index(b, got.event.type) = <<>> THEN 0 ELSE 1]

\* await sub.handler(event): the handler of the subscriber at the loop's
\* position in the list is called
invoke(b) ==
  LET sub == type_index(b, b.current.type)[b.index]
  IN [b EXCEPT !.awaiting = sub,
               !.received = [@ EXCEPT ![sub] = Append(@, b.current)]]

\* the handler awaited returns or raises (the exception is logged): the loop
\* goes on to the next position of the list as it stands now, or to the next
\* event when the list has no such position
handler_done(b) ==
  LET last == b.index >= Len(type_index(b, b.current.type))
  IN [b EXCEPT !.awaiting = 0,
               !.index = IF last THEN 0 ELSE @ + 1,
               !.current = IF last THEN NoEvent ELSE @]

\* ---- Approval channels (gateway/approval_bridge.py) ----------------------------------------------
\* Time is counted in ticks while a wait is in progress. A result carries the
\* number of request_approval calls made when it was created (request), so
\* that a result can be told from one submitted for an earlier request.
ApprovalResult(approved, action, request) ==
  [approved |-> approved, action |-> action, request |-> request]

\* self._approval_result = None
NoResult == ApprovalResult(FALSE, NONE, 0)

\* what a wait returned: the result, the timeout it was called with, the
\* ticks it took, the number of requests made and of responses submitted
\* since the last request when it returned, and the rank of the wait
Returned(result, timeout, elapsed, requests, fresh, waits) ==
  [result |-> result, timeout |-> timeout, elapsed |-> elapsed,
   requests |-> requests, fresh |-> fresh, waits |-> waits]

\* a channel of either class: _pending_approval and _approval_result (CLI),
\* auto_reject_timeout and _response_queue (callback), the wait in progress
\* (waiting, its timeout argument, the ticks left and elapsed, and whether
\* what it awaits has completed), and the record of the calls made
ApprovalChannel(kind, auto_reject_timeout) ==
  [kind |-> kind, auto_reject_timeout |-> auto_reject_timeout,
   pending_approval |-> FALSE, approval_result |-> NoResult,
   response_queue |-> <<>>,
   waiting |-> FALSE, timeout |-> 0, remaining |-> 0, elapsed |-> 0, woken |-> FALSE,
   requests |-> 0, responses |-> 0, fresh |-> 0, waits |-> 0,
   returned |-> Returned(NoResult, 0, 0, 0, 0, 0)]

\* request_approval: the CLI channel clears its event and its result, the
\* callback channel draws a new request id and leaves its queue as it is
request_approval(c) ==
  IF c.kind = "cli"
    THEN [c EXCEPT !.pending_approval = FALSE, !.approval_result = NoResult,
                   !.requests = @ + 1, !.fresh = 0]
    ELSE [c EXCEPT !.requests = @ + 1, !.fresh = 0]

\* CLIApprovalChannel.respond: the result is stored and the event is set,
\* which completes the wait of the event if one is in progress
respond(c, action) ==
  [c EXCEPT !.approval_result = ApprovalResult(action = "approve", action, c.requests),
            !.pending_approval = TRUE,
            !.woken = @ \/ c.waiting,
            !.responses = @ + 1, !.fresh = @ + 1]

\* CallbackApprovalChannel.submit_response: the result is put on the queue,
\* which completes the get of the queue if one is in progress
submit_response(c, approved) ==
  [c EXCEPT !.response_queue =
              Append(@, ApprovalResult(approved, IF approved THEN "approve" ELSE "reject",
                                       c.requests)),
            !.woken = @ \/ c.waiting,
            !.responses = @ + 1, !.fresh = @ + 1]

\* the timeout handed to asyncio.wait_for
effective_timeout(c, timeout) ==
  IF c.kind = "cli" THEN timeout
  ELSE IF timeout > 0 THEN timeout ELSE c.auto_reject_timeout

\* the return of a wait with a result
wait_return(c, result) ==
  [c EXCEPT !.waiting = FALSE, !.woken = FALSE, !.remaining = 0,
            !.returned = Returned(result, c.timeout, c.elapsed, c.requests,
                                  c.fresh, c.waits)]

\* except asyncio.TimeoutError: approved=False, action="timeout"
wait_timeout(c) == wait_return(c, ApprovalResult(FALSE, "timeout", c.requests))

\* wait_for_response up to asyncio.wait_for: with a timeout that is not
\* positive wait_for cancels what it awaits and raises TimeoutError at
\* once; otherwise the event is awaited (it completes at once when it is
\* already set) or the queue is read (at once when it holds a result)
wait_for_response(c, timeout) ==
  LET t == effective_timeout(c, timeout)
      w == [c EXCEPT !.waiting = TRUE, !.timeout = timeout, !.remaining = t,
                     !.elapsed = 0, !.waits = @ + 1,
                     !.woken = IF c.kind = "cli" THEN c.pending_approval
                               ELSE c.response_queue # <<>>]
  IN IF t <= 0 THEN wait_timeout([w EXCEPT !.woken = FALSE]) ELSE w

\* what was awaited has completed: the CLI channel returns _approval_result
\* (action "error" when it is None), the callback channel the result it took
\* from the queue
wait_wake(c) ==
  IF c.kind = "cli"
    THEN wait_return(c, IF c.approval_result # NoResult THEN c.approval_result
                        ELSE ApprovalResult(FALSE, "error", c.requests))
    ELSE wait_return([c EXCEPT !.response_queue = Tail(@)], Head(c.response_queue))

\* a tick passes while the wait is suspended; the timeout fires with the last
tick(c) ==
  LET t == [c EXCEPT !.remaining = @ - 1, !.elapsed = @ + 1]
  IN IF t.remaining = 0 THEN wait_timeout(t) ELSE t

NoChannel == ApprovalChannel("cli", 1)

\* ---- state of the program -------------------------------------------------------------
VARIABLES
  state,          \* the AgentState object held by the caller (main: `state`)
  db,             \* rows of the checkpoints table
  next_id,        \* next AUTOINCREMENT id of the table
  pending,        \* HITLManager._pending_approvals
  cache,          \* queries stored in the semantic cache
  ecfg,           \* enterprise_config (the "system" section)
  pc,             \* position of the running request in process_request
  req,            \* local variables of the request running or just answered
  sessions_used,  \* number of session ids handed out
  ret,            \* value returned by the store / HITL call just made, if any
  last_op,        \* the operation that produced the current state
  persona,        \* the PersonaManager shared by the command loop and the debate loop
  debate_result,  \* a direct call of DebateLoop.run: its arguments and its outcome
  worker_result,  \* a direct call of the worker: its arguments and what it returned
  rb,             \* a call of CheckpointManager.rollback by one client of the store
  router_call,    \* a direct call of Router.route: its arguments and what it returned
  cache_call,     \* a SemanticCache object driven directly, and the last call made on it
  limiter,        \* a RateLimiter object, the clock and the record of its answers
  bus,            \* the EventBus with its consumer loop
  channel         \* an approval channel, the wait in progress on it and what the last wait returned

vars == << state, db, next_id, pending, cache, ecfg, pc, req,
           sessions_used, ret, last_op, persona, debate_result, worker_result, rb,
           router_call, cache_call, limiter, bus, channel >>

\* the components driven on their own are at rest
ComponentsIdle ==
  /\ rb = NoRollback
  /\ router_call = NoRouterCall
  /\ cache_call = NoCacheCall
  /\ limiter = NoLimiter
  /\ bus = NoBus
  /\ channel = NoChannel

ComponentsUnchanged == UNCHANGED << rb, router_call, cache_call, limiter, bus, channel >>

\* what process_request sees of a debate: the verdict of each round judged,
\* the fields of the DebateResult, and the exception if run raised
DebateSummary(ran, r) ==
  [ran |-> ran, verdicts |-> [i \in DOMAIN r.rounds |-> r.rounds[i].verdict],
   approved |-> r.approved, escalated |-> r.escalated,
   total_rounds |-> r.total_rounds, raised |-> r.raised]

NoSummary ==
  DebateSummary(FALSE, DebateRaised(PersonaManager({}), NONE, Proposal, <<>>))

NoReq ==
  [input |-> "", start_agent |-> NONE, routed |-> FALSE, destination |-> NONE,
   escalated |-> FALSE, tool_wait |-> FALSE, error |-> FALSE, handler |-> NONE,
   debate |-> NoSummary]

\* name of the operation, its step argument, its kind / action / reason argument,
\* its modified_data argument and the number of rows it deleted
Op(name, step, kind) ==
  [name |-> name, step |-> step, kind |-> kind, data |-> <<>>, n |-> 0]

DefaultConfig ==
  [checkpoint_enabled |-> TRUE, debate_enabled |-> FALSE,
   debate_auto_trigger_on_cloud |-> FALSE,
   debate_max_rounds |-> DEFAULT_MAX_ROUNDS,
   debate_approval_threshold |-> DEFAULT_APPROVAL_THRESHOLD]

\* the configurations explored: the defaults, automatic debate switched on,
\* and automatic debate with checkpointing switched off
Configs ==
  { DefaultConfig,
    [DefaultConfig EXCEPT !.debate_enabled = TRUE,
                          !.debate_auto_trigger_on_cloud = TRUE,
                          !.debate_max_rounds = MaxConfigRounds],
    [DefaultConfig EXCEPT !.checkpoint_enabled = FALSE,
                          !.debate_enabled = TRUE,
                          !.debate_auto_trigger_on_cloud = TRUE,
                          !.debate_max_rounds = MaxConfigRounds] }

\* the moderator outputs met by automatically triggered debates
RequestJudgments ==
  { Judgment("object", 8, "REVISE"), Judgment("object", 8, "APPROVE"),
    Judgment("object", 6, "ESCALATE"), Judgment("scalar", NoScore, NONE) }

\* no direct call of the worker has been made
NoWorkerCall ==
  [kind |-> NONE, called |-> FALSE,
   script |-> GenScript("text"),
   run |-> WorkerRun("text", TRUE, NoRetries, FALSE,
                     [r \in 1..MAX_CRITIC_ROUNDS |-> [a \in 1..CRITIC_MAX_RETRIES |-> "pass"]],
                     [r \in 1..MAX_CRITIC_ROUNDS |-> "text"]),
   generated |-> Generated(NONE, NONE, 0),
   result |-> WorkerResult(FALSE, FALSE, NONE, NONE, NoCritic, NoRetry)]

\* no direct call of the debate loop has been made
NoDebate ==
  [called |-> FALSE, original_persona_id |-> DEFAULT_PERSONA,
   input |-> DebateInput(0, DEFAULT_APPROVAL_THRESHOLD, <<>>, FALSE),
   outcome |-> DebateRaised(PersonaManager({}), NONE, Proposal, <<>>)]

Init ==
  /\ state = AgentState(1)
  /\ db = {}
  /\ next_id = 1
  /\ pending = [k \in {} |-> [reason |-> "", context |-> EmptyDict, step |-> 0]]
  /\ cache = {}
  /\ ecfg \in Configs
  /\ pc = "idle"
  /\ req = NoReq
  /\ sessions_used = 1
  /\ ret = NotFound
  /\ last_op = Op("init", NoStep, NONE)
  /\ persona = PersonaManager(PersonaIds)
  /\ debate_result = NoDebate
  /\ worker_result = NoWorkerCall
  /\ ComponentsIdle

\* ---- the store and the HITL manager driven directly (as the unit tests do) ----------------
Reasons == {"Test approval needed"}
Contexts == {[k \in {"function"} |-> "send_email"]}

ModifiedData ==
  { <<>>,
    << [key |-> "entities", dict |-> [k \in {"modified"} |-> "true"], value |-> ""] >>,
    << [key |-> "artifacts", dict |-> [k \in {"note"} |-> "a"], value |-> ""],
       [key |-> "note", dict |-> EmptyDict, value |-> "b"] >> }

ApiUnchanged ==
  /\ UNCHANGED << cache, ecfg, pc, req, persona, debate_result, worker_result >>
  /\ ComponentsUnchanged

\* state.step = k
ApiSetStep(k) ==
  /\ k # state.step
  /\ state' = [state EXCEPT !.step = k]
  /\ last_op' = Op("set_step", k, NONE)
  /\ ret' = NotFound
  /\ UNCHANGED << db, next_id, pending, sessions_used >>
  /\ ApiUnchanged

\* mgr.save_checkpoint(state, kind, label)
ApiSave(kind) ==
  /\ next_id <= MaxApiId
  /\ db' = save_checkpoint(db, next_id, state, kind, <<"test">>)
  /\ next_id' = next_id + 1
  /\ last_op' = Op("save", state.step, kind)
  /\ ret' = NotFound
  /\ UNCHANGED << state, pending, sessions_used >>
  /\ ApiUnchanged

\* rolled = mgr.rollback(session_id, step)
ApiRollback(step) ==
  LET r == rollback(db, state.session_id, step)
  IN /\ ret' = r.result
     /\ db' = r.db
     /\ last_op' = [Op("rollback", step, NONE) EXCEPT !.n = Cardinality(db \ r.db)]
     /\ UNCHANGED << state, next_id, pending, sessions_used >>
     /\ ApiUnchanged

\* await hitl.suspend(state, reason, context)
ApiSuspend(reason, context) ==
  /\ next_id <= MaxApiId
  /\ LET r == hitl_suspend(state, db, next_id, pending, reason, context)
     IN /\ state' = r.state
        /\ db' = r.db
        /\ next_id' = r.next_id
        /\ pending' = r.pending
  /\ last_op' = Op("suspend", state.step, reason)
  /\ ret' = NotFound
  /\ UNCHANGED sessions_used
  /\ ApiUnchanged

\* restored = await hitl.resume(session_id, action, modified_data)
ApiResume(action, modified_data) ==
  /\ action = "reject" => next_id <= MaxApiId
  /\ LET r == hitl_resume(db, next_id, pending, state.session_id, action, modified_data)
     IN /\ ret' = r.result
        /\ db' = r.db
        /\ next_id' = r.next_id
        /\ pending' = r.pending
  /\ last_op' = [Op("resume", NoStep, action) EXCEPT !.data = modified_data]
  /\ UNCHANGED << state, sessions_used >>
  /\ ApiUnchanged

InitApi == Init /\ ecfg = DefaultConfig

\* ---- the debate loop driven directly, as the unit tests do --------------------------------
\* the arguments of the call: max_rounds rounds of moderator output, and
\* whether the revise phase fails (it then hands the proposal back unchanged)
DebateInputs ==
  UNION { { DebateInput(n, DEFAULT_APPROVAL_THRESHOLD, js, f) :
              js \in [1..n -> ModeratorOutputs], f \in BOOLEAN } :
          n \in 1..MaxRounds }

\* a PersonaManager built over any set of persona files, and the call to come
InitDebate ==
  /\ state = AgentState(1)
  /\ db = {}
  /\ next_id = 1
  /\ pending = [k \in {} |-> [reason |-> "", context |-> EmptyDict, step |-> 0]]
  /\ cache = {}
  /\ ecfg = DefaultConfig
  /\ pc = "idle"
  /\ req = NoReq
  /\ sessions_used = 1
  /\ ret = NotFound
  /\ last_op = Op("init", NoStep, NONE)
  /\ \E files \in SUBSET PersonaIds : persona = PersonaManager(files)
  /\ \E inp \in DebateInputs : debate_result = [NoDebate EXCEPT !.input = inp]
  /\ worker_result = NoWorkerCall
  /\ ComponentsIdle

DebateUnchanged ==
  /\ UNCHANGED << state, db, next_id, pending, cache, ecfg, pc, req, sessions_used, ret,
                  worker_result >>
  /\ ComponentsUnchanged

\* persona_mgr.switch_persona(persona_id); FileNotFoundError is reported
SwitchPersona(persona_id) ==
  /\ ~debate_result.called
  /\ persona' = switch_persona(persona, persona_id).persona
  /\ last_op' = Op("persona", NoStep, persona_id)
  /\ UNCHANGED debate_result
  /\ DebateUnchanged

\* result = await debate.run(proposal, task, max_rounds, approval_threshold)
DebateCall ==
  /\ ~debate_result.called
  /\ LET r == DebateRun(persona, debate_result.input)
     IN /\ persona' = r.persona
        /\ debate_result' = [debate_result EXCEPT !.called = TRUE,
                                                  !.original_persona_id = persona.current_id,
                                                  !.outcome = r]
  /\ last_op' = Op("debate", NoStep, NONE)
  /\ DebateUnchanged

NextDebate ==
  \/ \E persona_id \in PersonaIds : SwitchPersona(persona_id)
  \/ DebateCall

SpecDebate == InitDebate /\ [][NextDebate]_vars

\* ---- the worker driven directly ----------------------------------------------------------------
ToolScripts == [1..MAX_TOOL_STEPS -> StepEvents]

\* the first validation and the retries: retries are drawn only after a
\* validation that fails
ValidationCases ==
  {<<TRUE, NoRetries>>} \cup
  { <<FALSE, retries>> : retries \in [1..MAX_VALIDATION_RETRIES -> RetryEvents] }

WorkerInputs ==
  { WorkerRun(gen, v[1], v[2], has_code, critics, [r \in 1..MAX_CRITIC_ROUNDS |-> regen]) :
      gen \in GenEvents, v \in ValidationCases, has_code \in BOOLEAN,
      critics \in [1..MAX_CRITIC_ROUNDS -> [1..CRITIC_MAX_RETRIES -> CriticEvents]],
      regen \in GenEvents }

\* the call to come: one generation over a script of steps, or one execution
InitWorker ==
  /\ state = AgentState(1)
  /\ db = {}
  /\ next_id = 1
  /\ pending = [k \in {} |-> [reason |-> "", context |-> EmptyDict, step |-> 0]]
  /\ cache = {}
  /\ ecfg = DefaultConfig
  /\ pc = "idle"
  /\ req = NoReq
  /\ sessions_used = 1
  /\ ret = NotFound
  /\ last_op = Op("init", NoStep, NONE)
  /\ persona = PersonaManager(PersonaIds)
  /\ debate_result = NoDebate
  /\ \/ \E script \in ToolScripts :
          worker_result = [NoWorkerCall EXCEPT !.kind = "generate", !.script = script]
     \/ \E run \in WorkerInputs :
          worker_result = [NoWorkerCall EXCEPT !.kind = "execute", !.run = run]
  /\ ComponentsIdle

WorkerUnchanged ==
  /\ UNCHANGED << state, db, next_id, pending, cache, ecfg, pc, req, sessions_used, ret,
                  persona, debate_result >>
  /\ ComponentsUnchanged

\* await worker._generate_response(task, ...)
GenerateCall ==
  /\ worker_result.kind = "generate" /\ ~worker_result.called
  /\ worker_result' = [worker_result EXCEPT !.called = TRUE,
                                            !.generated = ToolLoop(worker_result.script, 0)]
  /\ last_op' = Op("generate", NoStep, NONE)
  /\ WorkerUnchanged

\* await worker.execute(task)
ExecuteCall ==
  /\ worker_result.kind = "execute" /\ ~worker_result.called
  /\ worker_result' = [worker_result EXCEPT !.called = TRUE,
                                            !.result = worker_execute(worker_result.run)]
  /\ last_op' = Op("execute", NoStep, NONE)
  /\ WorkerUnchanged

NextWorker == GenerateCall \/ ExecuteCall

SpecWorker == InitWorker /\ [][NextWorker]_vars

NextApi ==
  \/ \E k \in 0..MaxApiStep : ApiSetStep(k)
  \/ \E kind \in CheckpointType : ApiSave(kind)
  \/ \E step \in 0..MaxApiStep : ApiRollback(step)
  \/ \E reason \in Reasons, context \in Contexts : ApiSuspend(reason, context)
  \/ \E action \in {"approve", "reject", "modify"}, md \in ModifiedData :
       ApiResume(action, md)

SpecApi == InitApi /\ [][NextApi]_vars

\* ---- the store shared by several clients ------------------------------------------------
\* One client calls rollback, which reads through one connection and deletes
\* through a second one; between the two, and around them, other clients of
\* the same database file save checkpoints and roll sessions back.
StoreSessions == {1, 2}

\* the program apart from the store is at rest
ProgramIdle ==
  /\ state = AgentState(1)
  /\ pending = [k \in {} |-> [reason |-> "", context |-> EmptyDict, step |-> 0]]
  /\ cache = {}
  /\ ecfg = DefaultConfig
  /\ pc = "idle"
  /\ req = NoReq
  /\ sessions_used = 1
  /\ ret = NotFound
  /\ last_op = Op("init", NoStep, NONE)
  /\ persona = PersonaManager(PersonaIds)
  /\ debate_result = NoDebate
  /\ worker_result = NoWorkerCall

ProgramUnchanged ==
  UNCHANGED << state, pending, cache, ecfg, pc, req, sessions_used, ret, last_op,
               persona, debate_result, worker_result >>

\* the store at work leaves the rest of the program alone
StoreUnchanged ==
  /\ ProgramUnchanged
  /\ UNCHANGED << router_call, cache_call, limiter, bus, channel >>

InitStore ==
  /\ ProgramIdle
  /\ db = {}
  /\ next_id = 1
  /\ rb = NoRollback
  /\ router_call = NoRouterCall
  /\ cache_call = NoCacheCall
  /\ limiter = NoLimiter
  /\ bus = NoBus
  /\ channel = NoChannel

\* another client: save_checkpoint(state, MILESTONE) with state.step = step
StoreSave(sid, step) ==
  /\ next_id <= MaxStoreId
  /\ db' = save_checkpoint(db, next_id, [AgentState(sid) EXCEPT !.step = step],
                           "MILESTONE", <<"other">>)
  /\ next_id' = next_id + 1
  /\ UNCHANGED rb
  /\ StoreUnchanged

\* another client: rollback(sid, step), seen at its DELETE
StoreRollback(sid, step) ==
  /\ db' = rollback(db, sid, step).db
  /\ db' # db
  /\ UNCHANGED << next_id, rb >>
  /\ StoreUnchanged

\* state = self.load_checkpoint(session_id, step); if state is None: return None
\* (load_checkpoint answers None as well when its query raises)
RollbackLoad(sid, step, load_fails) ==
  /\ rb.pc # "loaded"
  /\ LET res == IF load_fails THEN NotFound ELSE load_checkpoint(db, sid, step)
     IN rb' = IF res.found
                THEN RollbackCall("loaded", sid, step, res, NotFound, FALSE)
                ELSE RollbackCall("done", sid, step, NotFound, NotFound, FALSE)
  /\ UNCHANGED << db, next_id >>
  /\ StoreUnchanged

\* the DELETE through the second connection and the return; when execute or
\* commit raises the exception leaves rollback and no state is returned
RollbackDelete(failed) ==
  /\ rb.pc = "loaded"
  /\ db' = Committed(db, delete_after(db, rb.session_id, rb.step), failed)
  /\ rb' = [rb EXCEPT !.pc = "done",
                      !.result = IF failed THEN NotFound ELSE rb.loaded,
                      !.raised = failed]
  /\ UNCHANGED next_id
  /\ StoreUnchanged

NextStore ==
  \/ \E sid \in StoreSessions, step \in 0..MaxStoreStep : StoreSave(sid, step)
  \/ \E sid \in StoreSessions, step \in 0..MaxStoreStep : StoreRollback(sid, step)
  \/ \E sid \in StoreSessions, step \in 0..MaxStoreStep, load_fails \in BOOLEAN :
       RollbackLoad(sid, step, load_fails)
  \/ \E failed \in BOOLEAN : RollbackDelete(failed)

SpecStore == InitStore /\ [][NextStore]_vars

\* ---- the router driven directly -----------------------------------------------------------------
Messages == UNION { [1..n -> Words] : n \in 1..MaxMessageLen }

InitRouter ==
  /\ ProgramIdle
  /\ db = {}
  /\ next_id = 1
  /\ rb = NoRollback
  /\ cache_call = NoCacheCall
  /\ limiter = NoLimiter
  /\ bus = NoBus
  /\ channel = NoChannel
  /\ \E user_message \in Messages, llm \in LlmAnswers :
       router_call = [NoRouterCall EXCEPT !.message = user_message, !.llm = llm]

\* routing = await router.route(user_message)
RouteCall ==
  /\ ~router_call.called
  /\ router_call' = [router_call EXCEPT !.called = TRUE,
                                        !.result = route(router_call.message,
                                                         router_call.llm)]
  /\ UNCHANGED << db, next_id, rb, cache_call, limiter, bus, channel >>
  /\ ProgramUnchanged

NextRouter == RouteCall

SpecRouter == InitRouter /\ [][NextRouter]_vars

\* ---- the semantic cache driven directly ------------------------------------------------------------
\* the queries of the calls: two that may be cached, two that may not
CacheQueries == Queries \cup {"pricing plans", "/clear"}

CacheUnchanged ==
  /\ ProgramUnchanged
  /\ UNCHANGED << db, next_id, rb, router_call, limiter, bus, channel >>

\* SemanticCache(...): construction succeeds or leaves the cache disabled
InitCache ==
  /\ ProgramIdle
  /\ db = {}
  /\ next_id = 1
  /\ rb = NoRollback
  /\ router_call = NoRouterCall
  /\ limiter = NoLimiter
  /\ bus = NoBus
  /\ channel = NoChannel
  /\ \E enabled \in BOOLEAN :
       cache_call = [NoCacheCall EXCEPT !.cache = SemanticCache(enabled)]

\* cached = cache.get(query)
CacheGet(query, fails) ==
  /\ cache_call.calls < MaxCacheCalls
  /\ LET r == semantic_cache_get(cache_call.cache, query, fails)
     IN cache_call' = CacheCall(r.cache, cache_call.calls + 1, "get", query, r.hit)
  /\ CacheUnchanged

\* cache.put(query, response)
CachePut(query, fails) ==
  /\ cache_call.calls < MaxCacheCalls
  /\ cache_call' = CacheCall(semantic_cache_put(cache_call.cache, query, fails),
                             cache_call.calls + 1, "put", query, FALSE)
  /\ CacheUnchanged

NextCache ==
  \/ \E query \in CacheQueries, fails \in BOOLEAN : CacheGet(query, fails)
  \/ \E query \in CacheQueries, fails \in BOOLEAN : CachePut(query, fails)

SpecCache == InitCache /\ [][NextCache]_vars

\* ---- the rate limiter driven directly ------------------------------------------------------------
LimiterUnchanged ==
  /\ ProgramUnchanged
  /\ UNCHANGED << db, next_id, rb, router_call, cache_call, bus, channel >>

\* RateLimiter(max_calls, window_sec)
InitLimiter ==
  /\ ProgramIdle
  /\ db = {}
  /\ next_id = 1
  /\ rb = NoRollback
  /\ router_call = NoRouterCall
  /\ cache_call = NoCacheCall
  /\ bus = NoBus
  /\ channel = NoChannel
  /\ \E max_calls \in 1..MaxCalls, window_sec \in 1..MaxWindow :
       limiter = RateLimiter(max_calls, window_sec)

\* time passes
LimiterTick ==
  /\ limiter.now < MaxTime
  /\ limiter' = [limiter EXCEPT !.now = @ + 1]
  /\ LimiterUnchanged

\* await limiter.allow() or limiter.allow_sync()
LimiterAllow ==
  /\ limiter.attempts < MaxAttempts
  /\ limiter' = allow(limiter)
  /\ LimiterUnchanged

\* await limiter.remaining() or limiter.remaining_sync()
LimiterRemaining ==
  /\ limiter' = remaining(limiter)
  /\ limiter' # limiter
  /\ LimiterUnchanged

\* limiter.reset()
LimiterReset ==
  /\ limiter.granted # <<>>
  /\ limiter' = reset(limiter)
  /\ LimiterUnchanged

NextLimiter == LimiterTick \/ LimiterAllow \/ LimiterRemaining \/ LimiterReset

SpecLimiter == InitLimiter /\ [][NextLimiter]_vars

\* ---- the event bus with its consumer loop running -------------------------------------------------
Subscriptions ==
  UNION { [1..n -> [event_type : EventTypes, handler : HandlerKinds]] : n \in 1..MaxSubscribers }

BusUnchanged ==
  /\ ProgramUnchanged
  /\ UNCHANGED << db, next_id, rb, router_call, cache_call, limiter, channel >>

\* bus.subscribe(event_type, handler) for each subscriber, then await bus.start()
InitBus ==
  /\ ProgramIdle
  /\ db = {}
  /\ next_id = 1
  /\ rb = NoRollback
  /\ router_call = NoRouterCall
  /\ cache_call = NoCacheCall
  /\ limiter = NoLimiter
  /\ channel = NoChannel
  /\ \E subs \in Subscriptions : bus = EventBus(subs)

\* await bus.publish(event) by any publisher; the task that publish_sync
\* creates publishes when it runs
BusPublish(event_type) ==
  /\ bus.published < MaxEvents
  /\ bus' = publish(bus, event_type)
  /\ BusUnchanged

\* event = await self._queue.get(): the loop is between two events
BusTake ==
  /\ bus.current = NoEvent
  /\ bus.queue # <<>>
  /\ bus' = take(bus)
  /\ BusUnchanged

\* the loop calls the handler of the next subscriber of the event
BusInvoke ==
  /\ bus.current # NoEvent
  /\ bus.awaiting = 0
  /\ bus' = invoke(bus)
  /\ BusUnchanged

\* the handler awaited comes back; a handler that never returns does not
BusHandlerDone ==
  /\ bus.awaiting # 0
  /\ bus.subs[bus.awaiting].handler # "hangs"
  /\ bus' = handler_done(bus)
  /\ BusUnchanged

NextBus ==
  \/ \E event_type \in EventTypes : BusPublish(event_type)
  \/ BusTake
  \/ BusInvoke
  \/ BusHandlerDone

SpecBus == InitBus /\ [][NextBus]_vars

\* bus.unsubscribe(subscription_id), called by a handler while it runs, or by
\* another task while the loop awaits a handler or the queue
BusUnsubscribe(sub) ==
  /\ ~(bus.awaiting = 0 /\ bus.current # NoEvent)
  /\ sub \in bus.subscribed
  /\ bus' = unsubscribe(bus, sub)
  /\ BusUnchanged

NextUnsubscribe ==
  \/ NextBus
  \/ \E sub \in 1..MaxSubscribers : BusUnsubscribe(sub)

SpecUnsubscribe == InitBus /\ [][NextUnsubscribe]_vars

\* ---- an approval channel with one approval flow at a time -----------------------------------------
\* The owner of the channel requests an approval and then waits for it; the
\* responses come from elsewhere (the command loop, a gateway handler) at any
\* moment, also after the wait has timed out.
ChannelKinds == {"cli", "callback"}

ChannelUnchanged ==
  /\ ProgramUnchanged
  /\ UNCHANGED << db, next_id, rb, router_call, cache_call, limiter, bus >>

\* CLIApprovalChannel() or CallbackApprovalChannel(auto_reject_timeout=...)
InitChannel ==
  /\ ProgramIdle
  /\ db = {}
  /\ next_id = 1
  /\ rb = NoRollback
  /\ router_call = NoRouterCall
  /\ cache_call = NoCacheCall
  /\ limiter = NoLimiter
  /\ bus = NoBus
  /\ \E kind \in ChannelKinds, auto_reject_timeout \in 1..MaxTimeout :
       channel = ApprovalChannel(kind, auto_reject_timeout)

\* await channel.request_approval(reason, context)
ChannelRequest ==
  /\ ~channel.waiting
  /\ channel.requests < MaxRequests
  /\ channel' = request_approval(channel)
  /\ ChannelUnchanged

\* channel.respond(action)
ChannelRespond(action) ==
  /\ channel.kind = "cli"
  /\ channel.responses < MaxResponses
  /\ channel' = respond(channel, action)
  /\ ChannelUnchanged

\* await channel.submit_response(approved)
ChannelSubmit(approved) ==
  /\ channel.kind = "callback"
  /\ channel.responses < MaxResponses
  /\ channel' = submit_response(channel, approved)
  /\ ChannelUnchanged

\* await channel.wait_for_response(timeout), up to its suspension
ChannelWait(timeout) ==
  /\ ~channel.waiting
  /\ channel.waits < MaxWaits
  /\ channel' = wait_for_response(channel, timeout)
  /\ ChannelUnchanged

\* the wait resumes with what it awaited
ChannelWake ==
  /\ channel.waiting
  /\ channel.woken
  /\ channel' = wait_wake(channel)
  /\ ChannelUnchanged

\* time passes while the wait is suspended
ChannelTick ==
  /\ channel.waiting
  /\ ~channel.woken
  /\ channel' = tick(channel)
  /\ ChannelUnchanged

NextChannel ==
  \/ ChannelRequest
  \/ \E action \in {"approve", "reject"} : ChannelRespond(action)
  \/ \E approved \in BOOLEAN : ChannelSubmit(approved)
  \/ \E timeout \in 0..MaxTimeout : ChannelWait(timeout)
  \/ ChannelWake
  \/ ChannelTick

SpecChannel == InitChannel /\ [][NextChannel]_vars

\* ---- process_request and the command loop (main.py) -----------------------------------------
CLOUD_MODEL_NAME == "cloud-pm-gemini"

\* the loop refuses input while the session waits for an approval
Blocked == state.status = "SUSPENDED" /\ get_pending(pending, state.session_id)

DebateTriggered(destination) ==
  /\ ecfg.debate_enabled
  /\ ecfg.debate_auto_trigger_on_cloud
  /\ destination = "CLOUD"

\* the persona manager is not touched; the direct calls are not part of the loop
EngineUnchanged ==
  /\ UNCHANGED << persona, debate_result, worker_result >>
  /\ ComponentsUnchanged

\* turn and step are incremented, then the cache is consulted
ProcessRequest(user_input) ==
  /\ pc = "idle"
  /\ ~Blocked
  /\ state.step < MaxStep
  /\ cache_get(cache, user_input) \/ next_id + 2 <= MaxId
  /\ LET s1 == increment_step(increment_turn(state))
         hit == cache_get(cache, user_input)
     IN /\ state' = s1
        /\ req' = [NoReq EXCEPT !.input = user_input,
                                !.start_agent = state.current_agent,
                                !.handler = IF hit THEN "semantic-cache" ELSE NONE]
        /\ pc' = IF hit THEN "idle" ELSE "route"
        /\ last_op' = Op(IF hit THEN "respond" ELSE "request", s1.step, NONE)
  /\ ret' = NotFound
  /\ UNCHANGED << db, next_id, pending, cache, ecfg, sessions_used >>
  /\ EngineUnchanged

\* variant: no checkpoint is written after routing
PostRoutingUnsaved(s) ==
  /\ UNCHANGED << db, next_id >>
  /\ pc' = "execute"
  /\ last_op' = Op("route", s.step, NONE)
  /\ ret' = NotFound
  /\ UNCHANGED << pending, cache, ecfg, sessions_used >>
  /\ EngineUnchanged

\* the TRANSACTION checkpoint written right after routing
PostRouting(s) ==
  /\ IF ecfg.checkpoint_enabled
       THEN /\ db' = save_checkpoint(db, next_id, s, "TRANSACTION", <<"post-routing">>)
            /\ next_id' = next_id + 1
       ELSE UNCHANGED << db, next_id >>
  /\ pc' = "execute"
  /\ last_op' = Op("route", s.step, NONE)
  /\ ret' = NotFound
  /\ UNCHANGED << pending, cache, ecfg, sessions_used >>
  /\ EngineUnchanged

\* variant: the router is consulted although current_agent is set
RouteStickyReroutes ==
  /\ pc = "route"
  /\ state.current_agent # NONE
  /\ \E destination \in {"LOCAL", "CLOUD"} :
       /\ state' = [state EXCEPT !.current_agent = destination]
       /\ req' = [req EXCEPT !.destination = destination, !.routed = TRUE]
  /\ PostRouting(state')

\* current_agent is set: the router is skipped
RouteSticky ==
  /\ pc = "route"
  /\ state.current_agent # NONE
  /\ req' = [req EXCEPT !.destination = state.current_agent]
  /\ UNCHANGED state
  /\ PostRouting(state)

\* routing = await router.route(user_input)
RouteByRouter(destination) ==
  /\ pc = "route"
  /\ state.current_agent = NONE
  /\ state' = [state EXCEPT !.current_agent = destination]
  /\ req' = [req EXCEPT !.destination = destination, !.routed = TRUE]
  /\ PostRouting(state')

AfterExecute(destination) ==
  /\ pc' = IF DebateTriggered(destination) THEN "debate" ELSE "finish"
  /\ last_op' = Op("execute", state.step, NONE)
  /\ UNCHANGED << db, next_id, pending >>

\* destination == "CLOUD": call_cloud_pm; error says the answer starts with [ERROR]
ExecuteCloud(error) ==
  /\ pc = "execute"
  /\ req.destination = "CLOUD"
  /\ req' = [req EXCEPT !.handler = CLOUD_MODEL_NAME, !.error = error]
  /\ UNCHANGED state
  /\ AfterExecute(req.destination)
  /\ ret' = NotFound
  /\ UNCHANGED << cache, ecfg, sessions_used >>
  /\ EngineUnchanged

\* if result["escalated"]: the cloud model answers, else the worker's response
\* is the answer
Handler(result) == IF result.escalated THEN CLOUD_MODEL_NAME ELSE "local-worker"

\* worker.execute, the escalation to the cloud model, and the WaitApproval
\* handler of the command loop
ExecuteWorker(run, error) ==
  /\ pc = "execute"
  /\ req.destination # "CLOUD"
  /\ LET result == worker_execute(run)
         r == [req EXCEPT !.tool_wait = (run.gen = "tool_wait_approval")]
     IN IF result.raised = "WaitApproval"
          THEN LET h == hitl_suspend(state, db, next_id, pending, "tool approval",
                                     [k \in {"function"} |-> "send_email"])
               IN /\ state' = h.state
                  /\ db' = h.db
                  /\ next_id' = h.next_id
                  /\ pending' = h.pending
                  /\ req' = r
                  /\ pc' = "idle"
                  /\ last_op' = Op("execute", state.step, NONE)
        ELSE IF result.escalated
          THEN /\ state' = reset_routing(state)
               /\ req' = [r EXCEPT !.escalated = TRUE, !.handler = Handler(result),
                                   !.error = error]
               /\ AfterExecute(req.destination)
        ELSE /\ UNCHANGED state
             /\ req' = [r EXCEPT !.handler = Handler(result), !.error = error]
             /\ AfterExecute(req.destination)
  /\ ret' = NotFound
  /\ UNCHANGED << cache, ecfg, sessions_used >>
  /\ EngineUnchanged

\* debate_result = await debate_loop.run(...): an approved result changes only
\* the answer, an escalated one suspends the session, and an exception that
\* leaves run leaves process_request and the command loop as well
Debate(judgments, revise_fails) ==
  /\ pc = "debate"
  /\ LET r == DebateRun(persona, DebateInput(ecfg.debate_max_rounds,
                                             ecfg.debate_approval_threshold,
                                             judgments, revise_fails))
         h == hitl_suspend(state, db, next_id, pending,
                           "Adversarial debate escalation",
                           [k \in {"debate_report"} |-> "report"])
     IN /\ persona' = r.persona
        /\ IF r.raised # NONE
             THEN /\ pc' = "crashed"
                  /\ req' = [req EXCEPT !.debate = DebateSummary(TRUE, r)]
                  /\ UNCHANGED << state, db, next_id, pending >>
           ELSE /\ pc' = "finish"
                /\ req' = [req EXCEPT !.debate = DebateSummary(TRUE, r)]
                /\ IF ~r.approved /\ r.escalated
                     THEN /\ state' = h.state
                          /\ db' = h.db
                          /\ next_id' = h.next_id
                          /\ pending' = h.pending
                     ELSE UNCHANGED << state, db, next_id, pending >>
  /\ last_op' = Op("debate", state.step, NONE)
  /\ ret' = NotFound
  /\ UNCHANGED << cache, ecfg, sessions_used, debate_result, worker_result >>
  /\ ComponentsUnchanged

\* the MILESTONE checkpoint, the cache write and the return
Finish ==
  /\ pc = "finish"
  /\ IF ecfg.checkpoint_enabled
       THEN /\ db' = save_checkpoint(db, next_id, state, "MILESTONE", <<"task-complete">>)
            /\ next_id' = next_id + 1
       ELSE UNCHANGED << db, next_id >>
  /\ cache' = IF ~req.error THEN cache_put(cache, req.input) ELSE cache
  /\ pc' = "idle"
  /\ last_op' = Op("respond", state.step, NONE)
  /\ ret' = NotFound
  /\ UNCHANGED << state, pending, ecfg, req, sessions_used >>
  /\ EngineUnchanged

\* /clear, /new <project>, /load <project>: state = AgentState()
CmdNewState ==
  /\ pc = "idle"
  /\ sessions_used < MaxSessions
  /\ state' = AgentState(sessions_used + 1)
  /\ sessions_used' = sessions_used + 1
  /\ last_op' = Op("new", NoStep, NONE)
  /\ ret' = NotFound
  /\ req' = NoReq
  /\ UNCHANGED << db, next_id, pending, cache, ecfg, pc >>
  /\ EngineUnchanged

\* /checkpoint [label]
CmdCheckpoint ==
  /\ pc = "idle"
  /\ next_id <= MaxId
  /\ db' = save_checkpoint(db, next_id, state, "MILESTONE", <<"manual">>)
  /\ next_id' = next_id + 1
  /\ last_op' = Op("checkpoint", state.step, "MILESTONE")
  /\ ret' = NotFound
  /\ req' = NoReq
  /\ UNCHANGED << state, pending, cache, ecfg, pc, sessions_used >>
  /\ EngineUnchanged

\* /rollback <step>; a step without a checkpoint only prints a message
CmdRollback(step) ==
  /\ pc = "idle"
  /\ LET r == rollback(db, state.session_id, step)
     IN /\ db' = r.db
        /\ ret' = r.result
        /\ state' = IF r.result.found THEN r.result.state ELSE state
        /\ last_op' = [Op("rollback", IF r.result.found THEN step ELSE NoStep, NONE)
                         EXCEPT !.n = Cardinality(db \ r.db)]
  /\ req' = NoReq
  /\ UNCHANGED << next_id, pending, cache, ecfg, pc, sessions_used >>
  /\ EngineUnchanged

\* /approve
CmdApprove ==
  /\ pc = "idle"
  /\ LET r == hitl_resume(db, next_id, pending, state.session_id, "approve", <<>>)
     IN /\ db' = r.db
        /\ next_id' = r.next_id
        /\ pending' = r.pending
        /\ ret' = r.result
        /\ state' = IF r.result.found THEN r.result.state ELSE state
  /\ last_op' = Op("resume", NoStep, "approve")
  /\ req' = NoReq
  /\ UNCHANGED << cache, ecfg, pc, sessions_used >>
  /\ EngineUnchanged

\* /reject
CmdReject ==
  /\ pc = "idle"
  /\ next_id <= MaxId
  /\ LET r == hitl_resume(db, next_id, pending, state.session_id, "reject", <<>>)
     IN /\ db' = r.db
        /\ next_id' = r.next_id
        /\ pending' = r.pending
        /\ ret' = r.result
  /\ last_op' = Op("resume", NoStep, "reject")
  /\ req' = NoReq
  /\ UNCHANGED << state, cache, ecfg, pc, sessions_used >>
  /\ EngineUnchanged

Next ==
  \/ \E q \in Queries : ProcessRequest(q)
  \/ RouteSticky
  \/ \E destination \in {"LOCAL", "CLOUD"} : RouteByRouter(destination)
  \/ \E error \in BOOLEAN : ExecuteCloud(error)
  \/ \E run \in WorkerRuns, error \in BOOLEAN : ExecuteWorker(run, error)
  \/ \E judgments \in [1..MaxConfigRounds -> RequestJudgments], revise_fails \in BOOLEAN :
       Debate(judgments, revise_fails)
  \/ Finish
  \/ CmdNewState
  \/ CmdCheckpoint
  \/ \E step \in 0..MaxStep : CmdRollback(step)
  \/ CmdApprove
  \/ CmdReject

Spec == Init /\ [][Next]_vars

\* ---- the command loop with an interrupt --------------------------------------------------------
\* KeyboardInterrupt (or the cancellation of the main task) while a request is
\* processed: the exception leaves process_request and the loop, the finally
\* block closes the MCP connections, and the program exits
Cancel ==
  /\ pc \in {"route", "execute", "debate", "finish"}
  /\ pc' = "exited"
  /\ last_op' = Op("cancel", state.step, NONE)
  /\ UNCHANGED << state, db, next_id, pending, cache, ecfg, req, sessions_used, ret >>
  /\ EngineUnchanged

NextCancel ==
  \/ Next
  \/ Cancel

SpecCancel == Init /\ [][NextCancel]_vars

\* ---- properties of the store and the HITL manager ------------------------------------------
Sid == state.session_id

RowState(r) == model_validate_json(r.state_json)

\* C1: right after rollback(session, k) succeeds, list(session) holds only
\* checkpoints with step <= k and load(session) without a step returns the
\* checkpoint saved at step k.
C1_RollbackKeepsTarget ==
  (last_op.name = "rollback" /\ ret.found) =>
    LET k == last_op.step
        lst == list_checkpoints(db, Sid)
        latest == load_checkpoint(db, Sid, NoStep)
    IN /\ \A i \in DOMAIN lst : lst[i].step <= k
       /\ latest.found
       /\ latest.state.step = k
       /\ latest.state = ret.state
       /\ latest = load_checkpoint(db, Sid, k)

\* a rollback that deleted later checkpoints and kept both kinds at step k
C1_Witness ==
  /\ last_op.name = "rollback" /\ ret.found /\ last_op.n >= 1
  /\ Cardinality({r \in SessionRows(db, Sid) : r.step_number = last_op.step}) = 2

\* C2: in memory and in every persisted checkpoint, status is SUSPENDED if and
\* only if hitl_context is non-empty.
SuspendedIffContext(s) == (s.status = "SUSPENDED") <=> (DOMAIN s.hitl_context # {})

C2_SuspendedIffHitlContext ==
  /\ SuspendedIffContext(state)
  /\ ret.found => SuspendedIffContext(ret.state)
  /\ \A r \in db : SuspendedIffContext(RowState(r))

\* C3: after save(state, kind) the checkpoint loaded for the same session and
\* step, and the row stored under (session, step, kind), hold a state equal to
\* the saved one, whatever else the session holds.
C3_SaveThenLoad ==
  last_op.name = "save" =>
    LET res == load_checkpoint(db, Sid, state.step)
        keyed == {r \in db : /\ r.session_id = Sid
                             /\ r.step_number = state.step
                             /\ r.checkpoint_type = last_op.kind}
    IN /\ res.found
       /\ res.state = state
       /\ Cardinality(keyed) = 1
       /\ \A r \in keyed : RowState(r) = state

\* a save next to a checkpoint of the other kind at the same step and a
\* checkpoint at another step
C3_Witness ==
  /\ last_op.name = "save"
  /\ \E r \in db : r.step_number = state.step /\ r.checkpoint_type # last_op.kind
  /\ \E r \in db : r.step_number # state.step

\* C9: after suspend(state, reason, context) status is SUSPENDED, the session
\* has a pending approval recording the reason, and the session's most
\* recently written checkpoint is a TRANSACTION checkpoint of the suspended state.
C9_SuspendPersists ==
  last_op.name = "suspend" =>
    /\ state.status = "SUSPENDED"
    /\ get_pending(pending, Sid)
    /\ pending[Sid].reason = last_op.kind
    /\ LET row == MaxIdRow(SessionRows(db, Sid))
       IN /\ row.checkpoint_type = "TRANSACTION"
          /\ row.step_number = state.step
          /\ RowState(row) = state

\* a suspend of a session that already holds other checkpoints
C9_Witness ==
  /\ last_op.name = "suspend"
  /\ Cardinality(SessionRows(db, Sid)) >= 2
  /\ state.hitl_context["reason"] = last_op.kind

\* approve leaves the table alone, so the checkpoint it loaded is still the latest
ApprovedSuspended ==
  /\ last_op.name = "resume" /\ last_op.kind = "approve" /\ ret.found
  /\ load_checkpoint(db, Sid, NoStep).state.status = "SUSPENDED"

ResumedRunning ==
  /\ ret.state.status = "RUNNING"
  /\ ret.state.hitl_context = EmptyDict
  /\ ~get_pending(pending, Sid)

\* C10 as stated: resume(session, approve) on a suspended session returns a
\* RUNNING state with empty hitl_context, removes the pending approval and
\* merges modified_data, when supplied, into entities/artifacts.
C10_ApproveMergesModifiedData ==
  ApprovedSuspended =>
    LET loaded == load_checkpoint(db, Sid, NoStep).state
        merged == PatchItems(loaded, last_op.data)
    IN /\ ResumedRunning
       /\ ret.state.entities = merged.entities
       /\ ret.state.artifacts = merged.artifacts

\* C10 amended: resume(session, approve) on a suspended session returns a
\* RUNNING state with empty hitl_context and removes the pending approval;
\* modified_data passed with approve is not merged, entities/artifacts are
\* those of the loaded checkpoint.
C10_ApproveResumes ==
  ApprovedSuspended =>
    LET loaded == load_checkpoint(db, Sid, NoStep).state
    IN /\ ResumedRunning
       /\ ret.state.entities = loaded.entities
       /\ ret.state.artifacts = loaded.artifacts
       /\ ret.state.step = loaded.step

\* an approve carrying modified_data on a suspended session
C10_Witness == ApprovedSuspended /\ last_op.data # <<>>

\* ---- properties of the request pipeline ---------------------------------------------------------
\* the request has passed the routing stage
Routed == pc \in {"execute", "debate", "finish"} \/ (pc = "idle" /\ req.destination # NONE)

\* C4: with automatic checkpointing enabled, every request that reaches
\* RESPOND (cache hit, LOCAL, CLOUD or escalation) has a MILESTONE checkpoint
\* for the step at which it responds.
C4_RespondHasMilestone ==
  (last_op.name = "respond" /\ ecfg.checkpoint_enabled) =>
    \E r \in SessionRows(db, Sid) :
      r.step_number = state.step /\ r.checkpoint_type = "MILESTONE"

\* C5: over operations other than rollback the step of a session never decreases.
C5_StepNeverDecreases ==
  [][(state'.session_id = state.session_id /\ last_op'.name # "rollback")
       => state'.step >= state.step]_vars

C8_WaitApprovalSuspends ==
  (last_op.name = "execute" /\ req.tool_wait) =>
    /\ state.status = "SUSPENDED"
    /\ "reason" \in DOMAIN state.hitl_context
    /\ \E r \in SessionRows(db, Sid) :
         r.checkpoint_type = "TRANSACTION" /\ RowState(r) = state
    /\ get_pending(pending, Sid)

\* ---- properties of HITLManager.resume: reject and modify ----------------------------------
\* C11: resume(session, reject) on a session that has a checkpoint persists a
\* MILESTONE checkpoint of the loaded state with status FAILED, which becomes
\* the latest checkpoint of the session, removes the pending approval and
\* returns no state.
C11_RejectFails ==
  [][(last_op'.name = "resume" /\ last_op'.kind = "reject"
        /\ load_checkpoint(db, Sid, NoStep).found)
      => LET loaded == load_checkpoint(db, Sid, NoStep).state
             rejected == [loaded EXCEPT !.status = "FAILED"]
             latest == LatestRow(SessionRows(db', Sid))
         IN /\ ~ret'.found
            /\ ~get_pending(pending', Sid)
            /\ latest.checkpoint_type = "MILESTONE"
            /\ latest.step_number = loaded.step
            /\ latest.id \notin {r.id : r \in db}
            /\ RowState(latest) = rejected
            /\ RowState(latest).status = "FAILED"]_vars

\* a suspended session has been rejected
C11_Witness ==
  /\ last_op.name = "resume" /\ last_op.kind = "reject"
  /\ ~ret.found /\ ~get_pending(pending, Sid)
  /\ \E r \in SessionRows(db, Sid) :
       /\ r = LatestRow(SessionRows(db, Sid))
       /\ r.checkpoint_type = "MILESTONE"
       /\ RowState(r).status = "FAILED"
       /\ "reason" \in DOMAIN RowState(r).hitl_context

\* C12: resume(session, modify) on a suspended session returns a state only
\* when modified_data is supplied, and the returned state is RUNNING with
\* modified_data merged into entities/artifacts.
C12_ModifyRequiresData ==
  (/\ last_op.name = "resume" /\ last_op.kind = "modify"
   /\ load_checkpoint(db, Sid, NoStep).found
   /\ load_checkpoint(db, Sid, NoStep).state.status = "SUSPENDED"
   /\ ret.found)
  => LET loaded == load_checkpoint(db, Sid, NoStep).state
         merged == PatchItems(loaded, last_op.data)
     IN /\ last_op.data # <<>>
        /\ ret.state.status = "RUNNING"
        /\ ret.state.entities = merged.entities
        /\ ret.state.artifacts = merged.artifacts

\* ---- properties of the debate loop --------------------------------------------------------
DebateIn == debate_result.input
DebateOut == debate_result.outcome

\* the proposal a round starts from: the revision of the round before, or the
\* original when there was none or the revise phase handed it back
ProposalEntering(i) == IF i = 1 \/ DebateIn.revise_fails THEN Proposal ELSE i - 1

\* the rounds whose moderator output was read by the loop
JudgedRounds ==
  1..(Len(DebateOut.rounds) + IF DebateOut.raised = "AttributeError" THEN 1 ELSE 0)

\* C13: on every exit path of a debate run the active persona after the run is
\* the persona that was active when the run started.
C13_PersonaRestored ==
  debate_result.called =>
    persona.current_id = debate_result.original_persona_id

C16_UnparsableJudgmentRevises ==
  debate_result.called =>
    \A i \in JudgedRounds :
      DebateIn.judgments[i].json \in {"text", "scalar"}
      => /\ DebateOut.raised # "AttributeError"
         /\ i \in DOMAIN DebateOut.rounds
         /\ DebateOut.rounds[i].validity_score = 10
         /\ DebateOut.rounds[i].verdict = "REVISE"
         /\ ~DebateOut.escalated
         /\ i < DebateIn.max_rounds => DebateOut.rounds[i].revised

Generation == worker_result.kind = "generate" /\ worker_result.called
Execution == worker_result.kind = "execute" /\ worker_result.called

\* the critic loop ran: the generation and the validation went through and
\* the answer holds code
CriticLoopRan ==
  /\ Execution
  /\ worker_result.result.critic_passed # NONE

\* what critique answers in round i
RoundPassed(i) == critique(worker_result.run.critics[i], 1).passed

\* the regeneration after a rejection yields a usable response
RegenUsable(i) ==
  generate_response(worker_result.run.regens[i]).value \notin {NONE, "[ESCALATE]"}

\* C18: one generation makes at most MAX_TOOL_STEPS provider calls, and when
\* every step up to the limit ends in tool calls it returns the latest text
\* content.
C18_ToolLoopReturnsLatestText ==
  Generation =>
    /\ worker_result.generated.calls <= MAX_TOOL_STEPS
    /\ (\A i \in 1..MAX_TOOL_STEPS : worker_result.script[i] = "tool_call")
         => worker_result.generated.value # NONE

\* C19: in one execution the critic is consulted at most MAX_CRITIC_ROUNDS
\* times and the response regenerated at most MAX_CRITIC_ROUNDS - 1 times; the
\* loop passes at the first round that passes, and when every round rejects
\* it returns the last response as failed and the worker result is escalated.
C19_CriticLoopBounded ==
  CriticLoopRan =>
    LET c == worker_result.result.critic
    IN /\ c.critic_calls \in 1..MAX_CRITIC_ROUNDS
       /\ c.regenerations <= MAX_CRITIC_ROUNDS - 1
       /\ c.regenerations <= c.critic_calls
       /\ \A i \in 1..(c.critic_calls - 1) : ~RoundPassed(i) /\ RegenUsable(i)
       /\ c.passed <=> RoundPassed(c.critic_calls)
       /\ c.passed => /\ c.regenerations = c.critic_calls - 1
                      /\ c.response = c.critic_calls - 1
                      /\ ~worker_result.result.escalated
       /\ (\A i \in 1..MAX_CRITIC_ROUNDS : ~RoundPassed(i))
            => /\ ~c.passed
               /\ worker_result.result.critic_passed = "False"
               /\ worker_result.result.escalated
               /\ (\A i \in 1..(MAX_CRITIC_ROUNDS - 1) : RegenUsable(i))
                    => /\ c.critic_calls = MAX_CRITIC_ROUNDS
                       /\ c.regenerations = MAX_CRITIC_ROUNDS - 1
                       /\ c.response = MAX_CRITIC_ROUNDS - 1

\* every round rejected: the last regenerated response comes back as failed
C19_Witness ==
  /\ CriticLoopRan
  /\ worker_result.result.critic.critic_calls = MAX_CRITIC_ROUNDS
  /\ worker_result.result.critic.regenerations = MAX_CRITIC_ROUNDS - 1
  /\ worker_result.result.critic.response = MAX_CRITIC_ROUNDS - 1
  /\ ~worker_result.result.critic.passed
  /\ worker_result.result.escalated

\* every attempt of every critic round raises
CriticAlwaysRaises ==
  \A r \in 1..MAX_CRITIC_ROUNDS, a \in 1..CRITIC_MAX_RETRIES :
    worker_result.run.critics[r][a] = "raises"

\* C20: when every call to the critic raises, the critic result is PASS and
\* the worker returns its response without escalation.
C20_CriticUnreachablePasses ==
  (CriticLoopRan /\ CriticAlwaysRaises) =>
    /\ worker_result.result.critic.passed
    /\ worker_result.result.critic_passed = "True"
    /\ worker_result.result.critic.response = Response
    /\ worker_result.result.critic.regenerations = 0
    /\ ~worker_result.result.escalated

C20_Witness ==
  /\ CriticLoopRan /\ CriticAlwaysRaises
  /\ worker_result.result.critic.critic_calls = 1
  /\ ~worker_result.result.escalated

\* ---- properties of the validation retries ---------------------------------------------------
\* the first generation came back usable and failed validation
ValidationFailed ==
  /\ Execution
  /\ generate_response(worker_result.run.gen).value \notin {NONE, "[ESCALATE]"}
  /\ ~worker_result.run.valid

\* a retry validates before any retry comes back empty
RetrySucceeds ==
  \E k \in 1..MAX_VALIDATION_RETRIES :
    /\ worker_result.run.retries[k] = "valid"
    /\ \A j \in 1..(k - 1) : worker_result.run.retries[j] = "invalid"

\* C21: after a failed validation at most MAX_VALIDATION_RETRIES
\* regenerations are attempted; when none of them validates, or one of them
\* yields no response, the worker result is escalated with
\* validation_passed = false and the request is dispatched to the cloud model.
C21_ValidationRetriesBounded ==
  ValidationFailed =>
    LET r == worker_result.result
    IN /\ r.retry.attempts \in 1..MAX_VALIDATION_RETRIES
       /\ \A j \in 1..(r.retry.attempts - 1) : worker_result.run.retries[j] = "invalid"
       /\ r.retry.passed <=> RetrySucceeds
       /\ ~RetrySucceeds => /\ r.escalated
                            /\ ~r.validation_passed
                            /\ r.critic_passed = NONE
                            /\ Handler(r) = CLOUD_MODEL_NAME

\* a first retry that fails validation, then one that yields no response
C21_Witness ==
  /\ ValidationFailed
  /\ worker_result.run.retries[1] = "invalid"
  /\ worker_result.run.retries[MAX_VALIDATION_RETRIES] = "none"
  /\ worker_result.result.retry.attempts = MAX_VALIDATION_RETRIES
  /\ worker_result.result.retry.failed
  /\ worker_result.result.escalated
  /\ Handler(worker_result.result) = CLOUD_MODEL_NAME

\* ---- properties of the store under concurrent clients -----------------------------------
\* the rows of the session of the call with a step after its target
LaterRows(d) == {r \in d : r.session_id = rb.session_id /\ r.step_number > rb.step}

\* C22: rollback is all-or-nothing under interleaving with other store
\* operations and under failure: a call that returns a state has removed every
\* checkpoint of the session with a later step and nothing else; a call whose
\* target cannot be loaded, or whose delete fails, removes no checkpoint and
\* returns no state.
C22_RollbackAllOrNothing ==
  [][ /\ (rb.pc # "loaded" /\ rb' # rb) =>
           /\ db' = db
           /\ rb'.pc = "loaded" <=> load_checkpoint(db, rb'.session_id, rb'.step).found
                                    /\ rb'.loaded.found
           /\ rb'.pc = "done" => ~rb'.result.found
      /\ (rb.pc = "loaded" /\ rb'.pc = "done") =>
           \/ /\ rb'.result = rb.loaded
              /\ ~rb'.raised
              /\ LaterRows(db') = {}
              /\ db \ db' = LaterRows(db)
              /\ db' \subseteq db
           \/ /\ ~rb'.result.found
              /\ rb'.raised
              /\ db' = db ]_vars

\* a rollback returned the state of its target, the first row saved; the
\* checkpoint another client saved after it is gone
C22_Witness ==
  /\ rb.pc = "done"
  /\ rb.result.found
  /\ next_id > 2
  /\ \E r \in db : r.session_id = rb.session_id /\ r.step_number = rb.step /\ r.id = 1
  /\ \A r \in db : r.id = 1

\* ---- properties of the keys of the store ------------------------------------------------------
Key(r) == << r.session_id, r.step_number, r.checkpoint_type >>

\* the row a save has just written
NewRow(d, nid) == CHOOSE r \in d : r.id = nid

\* C23: after any sequence of saves the store holds at most one checkpoint per
\* (session_id, step, kind): a save writes one row under a fresh id, removes
\* only the row that had its key and leaves the others alone, and the row of
\* a key carries the state and the label of the most recent save for it.
C23_OneCheckpointPerKey ==
  /\ [](\A r1 \in db, r2 \in db : Key(r1) = Key(r2) => r1 = r2)
  /\ [][ next_id' = next_id + 1 =>
           /\ \E r \in db' : r.id = next_id
           /\ \A r \in db : r.id < next_id
           /\ LET new == NewRow(db', next_id)
              IN /\ db' \ db = {new}
                 /\ \A r \in db \ db' : Key(r) = Key(new)
                 /\ \A r \in db : Key(r) # Key(new) => r \in db'
                 /\ last_op'.name = "save" =>
                      /\ Key(new) = << state.session_id, state.step, last_op'.kind >>
                      /\ new.state_json = model_dump_json(state)
                      /\ new.label = <<"test">> ]_vars

\* two saves were made and a single row is left: the second save replaced the
\* row of the first
C23_Witness ==
  /\ last_op.name = "save"
  /\ next_id = 3
  /\ Cardinality(db) = 1
  /\ \A r \in db : r.id = 2 /\ r.label = <<"test">>

\* ---- properties of the checkpointing policy ---------------------------------------------------
\* a TRANSACTION checkpoint of the session for the current step
TransactionRows ==
  {r \in SessionRows(db, Sid) :
     r.checkpoint_type = "TRANSACTION" /\ r.step_number = state.step}

\* the request stands before the cloud call or the worker run that may
\* escalate to it, or before the debate that may suspend the session
BeforeCloudOrSuspend == pc \in {"execute", "debate"}

\* C24 as stated: in every request a TRANSACTION checkpoint for the current
\* step has been written before any cloud-model call starts and before the
\* session is suspended for HITL.
C24_TransactionBeforeCloudAlways ==
  BeforeCloudOrSuspend => TransactionRows # {}

\* C24 amended: with automatic checkpointing enabled, in every request a
\* TRANSACTION checkpoint for the current step has been written before any
\* cloud-model call (direct or by escalation) starts and before the session
\* is suspended for HITL; before the call it holds the state as it is.
C24_TransactionBeforeCloud ==
  (ecfg.checkpoint_enabled /\ BeforeCloudOrSuspend) =>
    /\ \E r \in TransactionRows : r.label = <<"post-routing">>
    /\ pc = "execute" => \E r \in TransactionRows : RowState(r) = state

\* the cloud model has answered a request routed to it and the debate that
\* may suspend the session is about to run
C24_Witness ==
  /\ pc = "debate"
  /\ ecfg.checkpoint_enabled
  /\ req.handler = CLOUD_MODEL_NAME
  /\ TransactionRows # {}

\* ---- properties of the escalation output --------------------------------------------------------
\* C25: the response of an escalation of a failed LOCAL attempt to CLOUD is
\* returned as the cloud model gave it, and it has passed through the debate
\* whenever automatic debate on CLOUD responses is enabled.
C25_EscalationOutputDebated ==
  (last_op.name = "respond" /\ req.escalated) =>
    /\ req.handler = CLOUD_MODEL_NAME
    /\ (ecfg.debate_enabled /\ ecfg.debate_auto_trigger_on_cloud) => req.debate.ran

\* ---- properties of the router -------------------------------------------------------------------
MatchesLocal == AnyMatch(FAST_LOCAL_PATTERNS, router_call.message)
MatchesCloud == AnyMatch(FAST_CLOUD_PATTERNS, router_call.message)

\* C26: the classifier of stage 2 is called exactly when the message matches
\* no pattern of either regex table; when a pattern matches, the decision is
\* that of the first matching table, the LOCAL table being consulted first,
\* and stage 2 is not called.
C26_ClassifierOnlyWithoutMatch ==
  router_call.called =>
    /\ router_call.result.llm_calls = (IF MatchesLocal \/ MatchesCloud THEN 0 ELSE 1)
    /\ MatchesLocal => router_call.result.destination = "LOCAL"
    /\ (~MatchesLocal /\ MatchesCloud) => router_call.result.destination = "CLOUD"
    /\ (MatchesLocal \/ MatchesCloud) <=> router_call.result.stage = "rule"

\* a message that matches a pattern of each table is routed LOCAL by rule
C26_Witness ==
  /\ router_call.called
  /\ MatchesLocal /\ MatchesCloud
  /\ router_call.result = Routing("LOCAL", "rule", 0)

\* ---- properties of the semantic cache ------------------------------------------------------------
\* C27: the collection is read on get and written on put only for a query
\* that is_cacheable accepts; a query it refuses always misses and is never
\* stored, and a disabled cache misses on every get.
C27_CacheGate ==
  /\ [](\A q \in cache_call.cache.collection : is_cacheable(q))
  /\ [][ LET c == cache_call.cache
             query == cache_call'.query
         IN /\ cache_call'.cache.store_queries # c.store_queries =>
                 (cache_call'.op = "get" /\ is_cacheable(query) /\ c.enabled)
            /\ (cache_call'.cache.store_adds # c.store_adds
                \/ cache_call'.cache.collection # c.collection) =>
                 (cache_call'.op = "put" /\ is_cacheable(query) /\ c.enabled)
            /\ (cache_call'.op = "get" /\ (~is_cacheable(query) \/ ~c.enabled)) =>
                 (~cache_call'.hit /\ cache_call'.cache = c)
            /\ (cache_call'.op = "put" /\ (~is_cacheable(query) \/ ~c.enabled)) =>
                 cache_call'.cache = c ]_vars

\* a query that may not be cached misses without a read of the collection,
\* which holds a response stored by an earlier put
C27_Witness ==
  /\ cache_call.op = "get"
  /\ ~is_cacheable(cache_call.query)
  /\ ~cache_call.hit
  /\ cache_call.cache.collection # {}
  /\ cache_call.cache.store_queries = 0

\* ---- properties of the rate limiter --------------------------------------------------------------
\* the number of timestamps recorded in l within the interval [from, to]
GrantedWithin(l, from, to) ==
  Cardinality({i \in DOMAIN l.granted : from <= l.granted[i] /\ l.granted[i] <= to})

\* C28: for any sequence of attempts at any times, the successful attempts
\* whose timestamps lie within any interval of length window_sec number at
\* most max_calls, and an attempt succeeds exactly when fewer than max_calls
\* recorded timestamps lie within the current window; a successful attempt
\* records its timestamp and a refused one records nothing.
C28_SlidingWindowLimit ==
  /\ [](\A t \in 0..limiter.now :
          GrantedWithin(limiter, t, t + limiter.window) <= limiter.max_calls)
  /\ [][ limiter'.attempts = limiter.attempts + 1 =>
           LET within == GrantedWithin(limiter, limiter.now - limiter.window, limiter.now)
           IN /\ limiter'.last = "granted" <=> within < limiter.max_calls
              /\ limiter'.last \in {"granted", "denied"}
              /\ limiter'.granted = IF within < limiter.max_calls
                                      THEN Append(limiter.granted, limiter.now)
                                      ELSE limiter.granted ]_vars

\* an attempt was refused and, the window having moved on, more attempts
\* than max_calls have succeeded in all
C28_Witness ==
  /\ limiter.last = "granted"
  /\ Len(limiter.granted) > limiter.max_calls
  /\ limiter.attempts > Len(limiter.granted)
  /\ limiter.max_calls > 1

\* ---- properties of the event bus -----------------------------------------------------------------
\* the events a subscriber has been called with
Received(sub) == bus.received[sub]

\* C29: each subscriber is called with the events of its type in the order
\* in which they were published, whatever the interleaving of the
\* publishers: the ranks of publication of the events it received increase,
\* and no event of its type published before one it received is missing.
C29_DeliveryInPublishOrder ==
  \A sub \in DOMAIN bus.subs :
    /\ \A i \in DOMAIN Received(sub) : Received(sub)[i].type = bus.subs[sub].event_type
    /\ \A i \in DOMAIN Received(sub), j \in DOMAIN Received(sub) :
         i < j => Received(sub)[i].id < Received(sub)[j].id
    /\ \A i \in DOMAIN Received(sub), k \in DOMAIN bus.event_log :
         (bus.event_log[k].type = bus.subs[sub].event_type
          /\ bus.event_log[k].id < Received(sub)[i].id)
           => \E j \in DOMAIN Received(sub) : Received(sub)[j] = bus.event_log[k]

\* a subscriber has received two events of its type between which an event
\* of the other type was published
C29_Witness ==
  \E sub \in DOMAIN bus.subs :
    /\ Len(Received(sub)) = 2
    /\ Received(sub)[1].id = 1
    /\ Received(sub)[2].id = 3

\* the handler awaited belongs to a subscriber after which another
\* subscriber of the same event is still to be called
OtherSubscriberWaits ==
  /\ bus.awaiting # 0
  /\ bus.index < Len(sub_ids(bus.subs, bus.current.type))

\* an event waits in the queue while a handler is awaited
LaterEventWaits == bus.awaiting # 0 /\ bus.queue # <<>>

\* C30: a handler that is slow or never returns does not delay the delivery
\* of the same event to the other subscribers nor the delivery of later
\* events: while it runs, the call of the next subscriber and the taking of
\* the next event can go ahead.
C30_SlowHandlerDoesNotStall ==
  /\ OtherSubscriberWaits => ENABLED BusInvoke
  /\ LaterEventWaits => ENABLED BusTake

\* ---- properties of the approval channels ----------------------------------------------------------
\* the last wait followed a request and was called with a positive timeout
WaitAfterRequest ==
  /\ channel.returned.waits > 0
  /\ channel.returned.requests > 0
  /\ channel.returned.timeout > 0

\* C31: in both approval channels, a wait with no response submitted between
\* the request and the end of the timeout returns action=timeout with
\* approved=false, and a wait with a response submitted in time returns a
\* response submitted for that request
C31_TimeoutWithoutResponse ==
  WaitAfterRequest =>
    /\ channel.returned.fresh = 0 =>
         /\ channel.returned.result.action = "timeout"
         /\ ~channel.returned.result.approved
    /\ channel.returned.fresh > 0 =>
         /\ channel.returned.result.action \in {"approve", "reject"}
         /\ channel.returned.result.request = channel.returned.requests

\* C32: a wait called with timeout=0 does not time out at once: when it
\* returns action=timeout, the default timeout of the channel has elapsed
C32_ZeroTimeoutWaitsDefault ==
  ( /\ channel.returned.waits > 0
    /\ channel.returned.timeout = 0
    /\ channel.returned.result.action = "timeout" )
  => channel.returned.elapsed > 0

\* C39: a result returned by the wait of the callback channel was submitted
\* after the most recent request_approval
C39_ResultOfLatestRequest ==
  ( /\ channel.kind = "callback"
    /\ channel.returned.waits > 0
    /\ channel.returned.requests > 0
    /\ channel.returned.result.action \in {"approve", "reject"} )
  => channel.returned.result.request = channel.returned.requests

\* ---- properties of the exit on cancellation -------------------------------------------------------
\* C33: when the processing of a request is cancelled, a TRANSACTION checkpoint
\* of the current state has been written when the orchestrator exits
C33_CheckpointOnCancel ==
  pc = "exited" => \E r \in TransactionRows : RowState(r) = state

\* ---- properties of the returned response ----------------------------------------------------------
\* C34: a response the worker returns with escalated=false and
\* validation_passed=true is one validate_response was run on and passed:
\* the first generation or the retry that validated, never a regeneration of
\* the critic loop, which is not validated
C34_ReturnedResponseValidated ==
  ( /\ Execution
    /\ ~worker_result.result.escalated
    /\ worker_result.result.validation_passed )
  => worker_result.result.critic.response = Response

\* ---- properties of the approval of a debate -----------------------------------------------------
\* C35: a debate that ends approved before max_rounds is reached was approved
\* on a judgment the moderator produced (verdict APPROVE, or a score below the
\* threshold); a moderator call that fails does not approve the proposal
C35_ApprovedOnModeratorJudgment ==
  ( /\ debate_result.called
    /\ DebateOut.raised = NONE
    /\ DebateOut.approved
    /\ DebateOut.total_rounds < DebateIn.max_rounds )
  => LET j == DebateIn.judgments[DebateOut.total_rounds]
     IN /\ j.json = "object"
        /\ \/ j.verdict \in {"APPROVE", "approve"}
           \/ (j.validity_score # NoScore
               /\ j.validity_score < DebateIn.approval_threshold)

\* ---- properties of a rejected session -------------------------------------------------------------
\* the latest checkpoint of the session is the one written by a rejection
RejectedLatest ==
  /\ SessionRows(db, Sid) # {}
  /\ LatestRow(SessionRows(db, Sid)).label = <<"HITL", "Rejected by human">>
  /\ RowState(LatestRow(SessionRows(db, Sid))).status = "FAILED"

\* C36: once a session has been rejected and its FAILED checkpoint is
\* persisted, a later resume call, whatever its action, does not return the
\* session with status RUNNING
C36_RejectedStaysFailed ==
  (last_op.name = "resume" /\ last_op.kind # "reject" /\ RejectedLatest)
  => ~(ret.found /\ ret.state.status = "RUNNING")

\* ---- properties of the gate of the command loop ---------------------------------------------------
\* C37: the orchestrator does not start processing a new user request (one
\* answered from the cache included) for a session whose in-memory status is
\* SUSPENDED
C37_NoRequestWhileSuspended ==
  [][(pc = "idle" /\ last_op'.name \in {"request", "respond"})
       => state.status # "SUSPENDED"]_vars

\* ---- properties of a response under review ---------------------------------------------------------
\* C38: when an automatically triggered debate has escalated and the session
\* waits for an approval, the response under review has not been returned as
\* the answer of the request and is not in the semantic cache
C38_EscalatedResponseWithheld ==
  ( /\ req.debate.ran
    /\ req.debate.escalated
    /\ state.status = "SUSPENDED"
    /\ get_pending(pending, Sid) )
  => /\ last_op.name # "respond"
     /\ req.input \notin cache

\* ---- properties of the event bus under unsubscription ---------------------------------------------
\* the number of times a subscriber has been called with an event
TimesReceived(sub, event) ==
  Cardinality({ i \in DOMAIN Received(sub) : Received(sub)[i] = event })

\* C40: every handler that stays subscribed to an event's type for the whole
\* dispatch of that event receives it exactly once, even if another handler
\* of the type raises or unsubscribes during the dispatch: once the loop has
\* left an event, each subscriber of its type still subscribed has been
\* called with it once; and a handler that raises does not stop the loop,
\* which goes on after it.
C40_SubscribedHandlerReceivesOnce ==
  /\ \A k \in DOMAIN bus.event_log, sub \in bus.subscribed :
       ( /\ bus.event_log[k] # bus.current
         /\ bus.subs[sub].event_type = bus.event_log[k].type )
       => TimesReceived(sub, bus.event_log[k]) = 1
  /\ (bus.awaiting # 0 /\ bus.subs[bus.awaiting].handler = "raises")
       => ENABLED BusHandlerDone

====
